---- MODULE Spec2Model ----
(***************************************************************************)
(* Fraud-investigation pipeline (investigator_v2.py, fraud_db_service.py). *)
(*                                                                         *)
(* Two views of the program are modelled over one set of variables:        *)
(*   Spec     the worker pool of main(): the Redis stream, the workers'    *)
(*            read/validate/investigate/extract/POST loop, the verdict     *)
(*            sink and the log;                                            *)
(*   SpecInv  one call of FraudDetectionSystem.investigate followed by the *)
(*            payload build of update_java_api, for every combination of   *)
(*            layer outputs drawn from the grids below.                    *)
(*                                                                         *)
(* Scores are fixed-point: a score s in [0,1] is the integer 1000*s.  The  *)
(* grids hold multiples of 10, so 0.4*ml + 0.3*ring + 0.3*anomaly is an    *)
(* exact integer (binary floating-point rounding of the Python expression  *)
(* is not modelled).                                                       *)
(***************************************************************************)
EXTENDS Integers, Sequences, FiniteSets, TLC

VARIABLES
    stream,      \* the Redis stream fraud:investigation:queue: Seq of entries
    pc,          \* worker -> position in worker()
    last_id,     \* worker -> the local last_id (Dollar = '$')
    cursor,      \* worker -> the id the pending XREAD waits after
    reads,       \* history: <<worker, id>> pairs returned by XREAD
    investigated,\* history: <<worker, id>> pairs passed to investigate
    posts,       \* the sink: verdict POSTs issued, [w, id, attempt, decision, confidence]
    log,         \* logger output of worker/update_java_api: <<w, id, tag>>
    faults,      \* number of failures the environment has injected so far
    held,        \* worker -> the local result of worker(), from investigate to the POST
    blocked,     \* the worker whose synchronous call holds the event loop, 0 if none
    phase,       \* the process: "running", "closed" (finally of main ran), "killed"
    state_file,  \* fraud_ai_state.pkl: [kind, keys, last_updated]
    attrs,       \* the system object has learned_patterns, model_weights, performance_stats
    db_service,  \* fraud_db_service.db_service: index into services, 0 = None
    services,    \* every FraudDatabaseService created: Seq of [pool, dropped]
    getpc,       \* caller -> position in get_db_service / close_db_service
    db_returns,  \* history: what get_db_service calls returned or raised, in order
    conns,       \* worker -> number of pool connections it holds
    qpc,         \* worker -> [q, at]: the datastore query of the case it is at
    acquire_waits, \* history: some pool.acquire() found no free connection
    icase,       \* SpecInv: the inputs of the investigation
    ipc,         \* SpecInv: position in worker lines 1287-1293 ("idle" in Spec)
    result,      \* SpecInv: what investigate returned
    payload,     \* SpecInv: the payload update_java_api built
    sequence_cache, \* TransformerAnomalyDetector.sequence_cache: user -> deque
    l4_calls,    \* history: user -> number of detect_anomalies calls so far
    case_history,     \* PatternDiscoveryEngine.case_history, deque(maxlen=10000)
    processing_times, \* FraudDetectionSystem.processing_times, deque(maxlen=1000)
    cases_recorded,   \* history: number of add_case calls so far
    times_recorded,   \* history: number of processing_times.append calls so far
    discovered_patterns, \* PatternDiscoveryEngine.discovered_patterns
    discovery,        \* history: how the last discover_patterns call ended
    update_buffer,    \* LightweightGradientBoostingDetector.update_buffer, deque(maxlen=100)
    feedback,         \* history: cases accepted, runs of the batch branch, its last batch
    cache,       \* LLMFraudReasoning.cache: context hash -> result
    llm_returned,\* history: what reason returned, [w, context, verdict]
    llm_requests,\* history: number of chat.completions.create calls so far
    table,       \* the transactions table: rows in order of created_at
    call,        \* the arguments of the call of a layer function being followed
    ret          \* what that call returned

\* the datastore handle and its connection pool
dbvars == <<db_service, services, getpc, db_returns, conns, qpc, acquire_waits>>
sysvars == <<blocked, phase, state_file, attrs, dbvars>>
\* everything but the datastore handle and its pool
nondbvars == <<stream, pc, last_id, cursor, reads, investigated, posts, log, faults,
               held, blocked, phase, state_file, attrs>>
poolvars == <<stream, pc, last_id, cursor, reads, investigated, posts, log, faults, held, sysvars>>
invvars == <<icase, ipc, result, payload>>
l4vars == <<sequence_cache, l4_calls>>
ringvars == <<case_history, processing_times, cases_recorded, times_recorded>>
fnvars == <<table, call, ret>>
l5vars == <<cache, llm_returned, llm_requests>>
\* the self-learning state: pattern discovery and the L2 feedback buffer
patvars == <<discovered_patterns, discovery, update_buffer, feedback>>
compvars == <<l4vars, ringvars, l5vars, patvars>>
vars == <<stream, pc, last_id, cursor, reads, investigated, posts, log, faults,
          held, blocked, phase, state_file, attrs,
          db_service, services, getpc, db_returns, conns, qpc, acquire_waits,
          icase, ipc, result, payload, sequence_cache, l4_calls,
          case_history, processing_times, cases_recorded, times_recorded,
          discovered_patterns, discovery, update_buffer, feedback,
          cache, llm_returned, llm_requests, table, call, ret>>

(***************************************************************************)
(* Bounds of the model.                                                    *)
(***************************************************************************)
NWorkers == 2
MaxEntries == 2
MaxFaults == 1
NUsers == 2
MaxCallsPerUser == 12
MaxRecords == 8
MaxRows == 4
NContexts == 2
NCallers == 2
MaxDbCalls == 3

Workers == 1..NWorkers
Users == 1..NUsers
Callers == 1..NCallers

(***************************************************************************)
(* Configuration constants (investigator_v2.py:54-57), times 1000.         *)
(***************************************************************************)
GRAY_AREA_MIN == 200
GRAY_AREA_MAX == 800
HUMAN_REVIEW_MIN == 400
HUMAN_REVIEW_MAX == 600

\* last_id = '$' (worker, line 1262); real ids are the positions 1, 2, ...
Dollar == 0

(***************************************************************************)
(* LAYER 5: the text the LLM returns is a sequence of tokens; the parser   *)
(* of _llm_inference cuts it from the first "{" to the last "}".           *)
(***************************************************************************)
LB == [t |-> "{"]
RB == [t |-> "}"]
TXT == [t |-> "text"]
Rec(v) == [t |-> "recommendation", v |-> v]
Conf(v) == [t |-> "confidence", v |-> v]
Reasoning == [t |-> "reasoning", v |-> "text"]

JsonKeys == {"recommendation", "confidence", "reasoning"}

HasTok(out, tok) == \E i \in 1..Len(out) : out[i] = tok

\* str.find("{"): the first position of tok
Find(out, tok) == CHOOSE i \in 1..Len(out) : out[i] = tok /\ \A j \in 1..(i-1) : out[j] # tok

\* str.rfind("}"): the last position of tok
RFind(out, tok) == CHOOSE i \in 1..Len(out) : out[i] = tok /\ \A j \in (i+1)..Len(out) : out[j] # tok

\* json.loads succeeds on an object of scalar members and raises on anything else
ValidJson(s) ==
    /\ Len(s) >= 2
    /\ s[1] = LB
    /\ s[Len(s)] = RB
    /\ \A i \in 2..(Len(s)-1) : s[i].t \in JsonKeys

\* the dict json.loads returns (a repeated key keeps its last value)
json_loads(s) ==
    LET members == 2..(Len(s)-1)
        keys == {s[i].t : i \in members}
        lastOf(k) == CHOOSE i \in members : s[i].t = k /\ \A j \in members : s[j].t = k => j <= i
    IN  [k \in keys |-> s[lastOf(k)].v]

\* the fallback dict of _llm_inference   (without its confidence member)
LLMFallbackNoConfidence(reasoning) ==
    [recommendation |-> "HUMAN_REVIEW", reasoning |-> reasoning]

LLMFallback(reasoning) ==
    [recommendation |-> "HUMAN_REVIEW", reasoning |-> reasoning, confidence |-> 500]

\* LLMFraudReasoning._llm_inference; reply = [raises, output]
_llm_inference(reply) ==
    IF reply.raises
    THEN LLMFallback("LLM analysis failed")
    ELSE LET output == reply.output IN
         IF HasTok(output, LB) /\ HasTok(output, RB)
         THEN LET json_str == SubSeq(output, Find(output, LB), RFind(output, RB)) IN
              IF ValidJson(json_str)
              THEN json_loads(json_str)
              ELSE LLMFallback("LLM analysis failed")
         ELSE LLMFallback("Unable to reach definitive conclusion")

\* LLMFraudReasoning.reason on a context that is not in the cache
reason(reply) == _llm_inference(reply)

\* if context_hash in self.cache: return self.cache[context_hash]   (no lookup)
ReasonReturnFresh(cch, context_hash, reply) == reason(reply)

\* what LLMFraudReasoning.reason returns; reply is the endpoint's answer
\* should reason call it
ReasonReturn(cch, context_hash, reply) ==
    IF context_hash \in DOMAIN cch THEN cch[context_hash] ELSE reason(reply)

\* the calls of the endpoint one reason call makes: one on a miss, no retry
ReasonRequests(cch, context_hash) == IF context_hash \in DOMAIN cch THEN 0 ELSE 1

\* self.cache after reason: a miss stores the result under the hash
ReasonCache(cch, context_hash, reply) ==
    IF context_hash \in DOMAIN cch
    THEN cch
    ELSE [h \in DOMAIN cch \cup {context_hash} |->
             IF h = context_hash THEN reason(reply) ELSE cch[h]]

\* dict.get(key, default)
Get(d, k, default) == IF k \in DOMAIN d THEN d[k] ELSE default

(***************************************************************************)
(* LAYER 4: TransformerAnomalyDetector.detect_anomalies keeps, per user,   *)
(* the feature vectors of the user's last calls.  The coroutine has no     *)
(* await, so on the event loop of main() a call runs from its first to its *)
(* last statement without another worker in between.                       *)
(***************************************************************************)
\* if len(self.sequence_cache[user_id]) > 10: popleft()   (pop() instead)
KeepLastDropsNewest(buf) == IF Len(buf) > 10 THEN SubSeq(buf, 1, Len(buf) - 1) ELSE buf

KeepLast(buf) == IF Len(buf) > 10 THEN Tail(buf) ELSE buf

\* the sequence cache after detect_anomalies(tx, features) of user_id
detect_anomalies(seq_cache, user_id, feature_vector) ==
    [seq_cache EXCEPT ![user_id] = KeepLast(Append(@, feature_vector))]

(***************************************************************************)
(* The two rings: PatternDiscoveryEngine.case_history = deque(maxlen=10000)*)
(* and FraudDetectionSystem.processing_times = deque(maxlen=1000).         *)
(***************************************************************************)
CASE_HISTORY_MAXLEN == 10000
PROCESSING_TIMES_MAXLEN == 1000

\* collections.deque(maxlen=maxlen).append(x)   (as a deque without maxlen)
DequeAppendUnbounded(d, x, maxlen) == Append(d, x)

DequeAppend(d, x, maxlen) == Append(IF Len(d) = maxlen THEN Tail(d) ELSE d, x)

\* PatternDiscoveryEngine.add_case
add_case(history, case) == DequeAppend(history, case, CASE_HISTORY_MAXLEN)

\* self.processing_times.append(processing_time)
AppendProcessingTime(times, t) == DequeAppend(times, t, PROCESSING_TIMES_MAXLEN)

(***************************************************************************)
(* ORCHESTRATOR: FraudDetectionSystem.investigate as a function of what    *)
(* its layers return.  A case c is                                         *)
(*   [dbfail: which datastore query raises ("none", "l1", "l3"),           *)
(*    ml, ring, anomaly: the scores of L2, L3, L4,                         *)
(*    llm: the reply of the LLM endpoint].                                 *)
(***************************************************************************)
ShortCircuitBlockInclusive(ml_score) == ml_score >= GRAY_AREA_MAX

ShortCircuitBlock(ml_score) == ml_score > GRAY_AREA_MAX

ShortCircuitApproveInclusive(ml_score) == ml_score <= GRAY_AREA_MIN

ShortCircuitApprove(ml_score) == ml_score < GRAY_AREA_MIN

\* ml_score * 0.4 + ring_score * 0.3 + anomaly_score * 0.3
combined_score(ml_score, ring_score, anomaly_score) ==
    (4 * ml_score + 3 * ring_score + 3 * anomaly_score) \div 10

L5GateExclusive(combined) == HUMAN_REVIEW_MIN < combined /\ combined < HUMAN_REVIEW_MAX

L5Gate(combined) == HUMAN_REVIEW_MIN <= combined /\ combined <= HUMAN_REVIEW_MAX

\* (the clear decision with the two bounds exclusive)
ClearDecisionExclusive(combined) ==
    IF combined > GRAY_AREA_MAX THEN "AUTO_BLOCKED"
    ELSE IF combined < GRAY_AREA_MIN THEN "AUTO_APPROVED"
    ELSE "HUMAN_REVIEW"

\* the else branch of the L5 gate: a clear decision from layers 2-4
ClearDecision(combined) ==
    IF combined >= GRAY_AREA_MAX THEN "AUTO_BLOCKED"
    ELSE IF combined <= GRAY_AREA_MIN THEN "AUTO_APPROVED"
    ELSE "HUMAN_REVIEW"

_build_result(decision, confidence, details, calls) ==
    [raised |-> FALSE, decision |-> decision, confidence |-> confidence,
     details |-> details, calls |-> calls]

Raises(calls) == [raised |-> TRUE, calls |-> calls]

ShortCircuitDetails(ml_score) ==
    [layer2_score |-> ml_score, skipped_layers |-> {"layer3", "layer4", "layer5"}]

investigate(c) ==
    IF c.dbfail = "l1"
    THEN Raises({"L1"})
    ELSE IF ShortCircuitBlock(c.ml)
    THEN _build_result("AUTO_BLOCKED", c.ml, ShortCircuitDetails(c.ml), {"L1", "L2"})
    ELSE IF ShortCircuitApprove(c.ml)
    THEN _build_result("AUTO_APPROVED", c.ml, ShortCircuitDetails(c.ml), {"L1", "L2"})
    ELSE IF c.dbfail = "l3"
    THEN Raises({"L1", "L2", "L3"})
    ELSE LET combined == combined_score(c.ml, c.ring, c.anomaly)
             llm_result == reason(c.llm)
             final_score == IF L5Gate(combined)
                            THEN Get(llm_result, "confidence", combined)
                            ELSE combined
             decision == IF L5Gate(combined)
                         THEN Get(llm_result, "recommendation", "HUMAN_REVIEW")
                         ELSE ClearDecision(combined)
             details == [layer2_ml_score |-> c.ml,
                         layer3_ring_score |-> c.ring,
                         layer4_anomaly_score |-> c.anomaly,
                         layer5_invoked |-> L5Gate(combined),
                         combined_score |-> combined,
                         final_score |-> final_score]
         IN  _build_result(decision, final_score, details,
                           {"L1", "L2", "L3", "L4"} \cup (IF L5Gate(combined) THEN {"L5"} ELSE {}))

\* result["processing_time_ms"] = processing_time, at the end of the gray path
SetProcessingTime(res, processing_time) ==
    [k \in DOMAIN res \cup {"processing_time_ms"} |->
        IF k = "processing_time_ms" THEN processing_time ELSE res[k]]

\* the ProcessedCase that _record_case builds from the result it is given
ProcessedCase(case_id, res) ==
    [case_id |-> case_id, final_decision |-> res.decision,
     processing_time_ms |-> Get(res, "processing_time_ms", 0)]

_record_case(history, case_id, res) == add_case(history, ProcessedCase(case_id, res))

(***************************************************************************)
(* The verdict payload of update_java_api.                                 *)
(***************************************************************************)
_get_investigation_layers(details) ==
    <<"RULE_BASED", "ML_MODELS">>
    \o (IF "layer3_ring_score" \in DOMAIN details THEN <<"GRAPH_ANALYSIS">> ELSE <<>>)
    \o (IF "layer4_anomaly_score" \in DOMAIN details THEN <<"PATTERN_DETECTION">> ELSE <<>>)
    \o (IF Get(details, "layer5_invoked", FALSE) THEN <<"LLM_REASONING">> ELSE <<>>)

\* (the decision passed through unmapped)
StatusPassThrough(decision, confidence) == decision

_determine_case_status(decision, confidence) ==
    IF decision = "AUTO_BLOCKED" THEN "AUTO_BLOCKED"
    ELSE IF decision = "AUTO_APPROVED" THEN "AUTO_APPROVED"
    ELSE "UNDER_INVESTIGATION"

\* aiSignals.ml_analysis.decision
MlAnalysisDecision(details) ==
    IF Get(details, "layer2_ml_score", 0) > 800 THEN "BLOCKED"
    ELSE IF Get(details, "layer2_ml_score", 0) < 200 THEN "APPROVED"
    ELSE "GRAY_AREA"

BuildPayload(res) ==
    [status |-> _determine_case_status(res.decision, res.confidence),
     confidenceScore |-> res.confidence,
     fraudProbability |-> res.confidence,
     investigationLayers |-> _get_investigation_layers(res.details),
     layer2_ml_score |-> Get(res.details, "layer2_ml_score", 0),
     ml_analysis_score |-> Get(res.details, "layer2_ml_score", 0),
     ml_analysis_decision |-> MlAnalysisDecision(res.details),
     processingTimeMs |-> Get(res.details, "processing_time_ms", 0),
     skipped_layers |-> Get(res.details, "skipped_layers", {}),
     layer5_invoked |-> Get(res.details, "layer5_invoked", FALSE)]

(***************************************************************************)
(* SpecInv: worker lines 1287-1293 for one case, every layer output drawn  *)
(* from the grids: investigate, the worker's second feature extraction,    *)
(* update_java_api.                                                        *)
(***************************************************************************)
MlScores == {0, 190, 200, 210, 390, 400, 600, 610, 790, 800, 810, 1000}
RingScores == {0, 400, 600, 1000}
AnomalyScores == {0, 400, 600, 1000}
DbFailures == {"none", "l1", "l3"}

LLMOutputs ==
    { <<LB, Rec("HUMAN_REVIEW"), Reasoning, Conf(550), RB>>,
      <<TXT, LB, Rec("BLOCK"), Reasoning, Conf(900), RB, TXT>>,
      <<LB, Rec("APPROVE"), Conf(100), RB>>,
      <<LB, Rec("AUTO_BLOCKED"), Reasoning, Conf(1500), RB>>,
      <<LB, Reasoning, RB>>,
      <<TXT>>,
      <<LB, TXT, RB>>,
      <<RB, TXT, LB>>,
      <<LB, Rec("BLOCK"), RB, TXT, LB, Conf(900), RB>> }

LLMReplies ==
    {[raises |-> TRUE, output |-> <<>>]} \cup {[raises |-> FALSE, output |-> o] : o \in LLMOutputs}

Cases ==
    [dbfail : DbFailures, ml : MlScores, ring : RingScores,
     anomaly : AnomalyScores, llm : LLMReplies]

\* (time.time() - overall_start) * 1000, in whole milliseconds
ElapsedMs == {1, 250}

NoCase == [dbfail |-> "none", ml |-> 0, ring |-> 0, anomaly |-> 0,
           llm |-> [raises |-> TRUE, output |-> <<>>]]
NoResult == [raised |-> FALSE, calls |-> {}]
NoPayload == [status |-> "none"]

\* tx.get("userId") of the case SpecInv follows
CaseUser == 1

\* the hash of the L5 context of that case
CaseContext == 1

\* result = await fraud_system.investigate(case_id, tx_data)
InvInvestigate ==
    /\ ipc = "start"
    /\ \E processing_time \in ElapsedMs :
          result' = IF "L4" \in investigate(icase).calls /\ ~investigate(icase).raised
                    THEN SetProcessingTime(investigate(icase), processing_time)
                    ELSE investigate(icase)
    /\ ipc' = IF result'.raised THEN "raised" ELSE "returned"
    /\ IF "L4" \in result'.calls
       THEN /\ l4_calls' = [l4_calls EXCEPT ![CaseUser] = @ + 1]
            /\ sequence_cache' = detect_anomalies(sequence_cache, CaseUser, l4_calls'[CaseUser])
       ELSE UNCHANGED <<sequence_cache, l4_calls>>
    /\ IF result'.raised
       THEN UNCHANGED <<case_history, cases_recorded>>
       ELSE /\ cases_recorded' = cases_recorded + 1
            /\ case_history' = _record_case(case_history, cases_recorded', investigate(icase))
    /\ IF "L5" \in result'.calls
       THEN /\ cache' = ReasonCache(cache, CaseContext, icase.llm)
            /\ llm_returned' = llm_returned \cup
                  {[w |-> 1, context |-> CaseContext,
                    verdict |-> ReasonReturn(cache, CaseContext, icase.llm)]}
            /\ llm_requests' = llm_requests + ReasonRequests(cache, CaseContext)
       ELSE UNCHANGED <<cache, llm_returned, llm_requests>>
    /\ IF ~result'.raised /\ "L4" \in result'.calls
       THEN /\ times_recorded' = times_recorded + 1
            /\ processing_times' = AppendProcessingTime(processing_times, times_recorded')
       ELSE UNCHANGED <<processing_times, times_recorded>>
    /\ UNCHANGED <<icase, payload>>
    /\ UNCHANGED patvars
    /\ UNCHANGED fnvars
    /\ UNCHANGED poolvars

\* features = await fraud_system.layer1_features.extract(tx_data)
InvExtract ==
    /\ ipc = "returned"
    /\ \E db_ok \in BOOLEAN : ipc' = IF db_ok THEN "extracted" ELSE "extract_raised"
    /\ UNCHANGED <<icase, result, payload>>
    /\ UNCHANGED fnvars
    /\ UNCHANGED poolvars
    /\ UNCHANGED compvars

\* await update_java_api(session, case_id, result, tx_data, features)
InvUpdateJavaApi ==
    /\ ipc = "extracted"
    /\ payload' = BuildPayload(result)
    /\ ipc' = "posted"
    /\ UNCHANGED <<icase, result>>
    /\ UNCHANGED fnvars
    /\ UNCHANGED poolvars
    /\ UNCHANGED compvars

\* os.path.exists("fraud_ai_state.pkl") is false
NoFile == [kind |-> "absent", keys |-> {}, last_updated |-> "never"]

\* FraudDatabaseService.__init__: self.pool = None
NewService == [pool |-> "none", dropped |-> FALSE]

\* a coroutine that is in neither get_db_service nor close_db_service
NotCalling == [at |-> "idle", svc |-> 0]

\* a worker that is in no datastore query
NoQuery == [q |-> 0, at |-> "idle"]

\* close_db_service: the pool of the current service is closed and the
\* global is reset to None
close_db_service(svcs, d) ==
    [i \in DOMAIN svcs |->
        IF i = d
        THEN [pool |-> IF svcs[i].pool = "connected" THEN "closed" ELSE svcs[i].pool,
              dropped |-> TRUE]
        ELSE svcs[i]]

\* db_service = await get_db_service() of main has returned the connected
\* service; no worker is in a query
DbStarted ==
    /\ db_service = 1
    /\ services = <<[pool |-> "connected", dropped |-> FALSE]>>
    /\ getpc = [c \in Callers |-> NotCalling]
    /\ db_returns = <<[caller |-> 1, kind |-> "returned", svc |-> 1, pool |-> "connected"]>>
    /\ conns = [w \in Workers |-> 0]
    /\ qpc = [w \in Workers |-> NoQuery]
    /\ acquire_waits = FALSE

\* the worker tasks main() has created, each at its first XREAD
WorkerTasks ==
    /\ stream = <<>>
    /\ pc = [w \in Workers |-> "xread"]
    /\ last_id = [w \in Workers |-> Dollar]
    /\ cursor = [w \in Workers |-> 0]
    /\ reads = {}
    /\ investigated = {}
    /\ posts = {}
    /\ log = {}
    /\ faults = 0
    /\ held = [w \in Workers |-> NoResult]
    /\ blocked = 0
    /\ phase = "running"

\* main() after lines 1529-1545: datastore connected, workers created
WorkersInit ==
    /\ DbStarted
    /\ WorkerTasks

\* load_state found no file: "No previous AI state found. Starting fresh."
FreshStart ==
    /\ state_file = NoFile
    /\ attrs = FALSE

PoolInit ==
    /\ WorkersInit
    /\ FreshStart

\* no verified case has been fed back
NoFeedback == [accepted |-> 0, batches |-> 0, last_batch |-> <<>>]

\* the components of FraudDetectionSystem after __init__
CompInit ==
    /\ sequence_cache = [u \in Users |-> <<>>]
    /\ l4_calls = [u \in Users |-> 0]
    /\ case_history = <<>>
    /\ processing_times = <<>>
    /\ cases_recorded = 0
    /\ times_recorded = 0
    /\ discovered_patterns = <<>>
    /\ discovery = "none"
    /\ update_buffer = <<>>
    /\ feedback = NoFeedback
    /\ cache = <<>>
    /\ llm_returned = {}
    /\ llm_requests = 0

NoCall == [op |-> "none"]
NoRet == [op |-> "none"]

\* no single call of a layer function is being followed
FnIdle ==
    /\ table = <<>>
    /\ call = NoCall
    /\ ret = NoRet

InitInv ==
    /\ PoolInit
    /\ CompInit
    /\ FnIdle
    /\ icase \in Cases
    /\ ipc = "start"
    /\ result = NoResult
    /\ payload = NoPayload

NextInv ==
    \/ InvInvestigate
    \/ InvExtract
    \/ InvUpdateJavaApi

SpecInv == InitInv /\ [][NextInv]_vars

(***************************************************************************)
(* Properties of investigate and of the verdict payload (SpecInv).         *)
(***************************************************************************)
Decisions == {"AUTO_APPROVED", "AUTO_BLOCKED", "HUMAN_REVIEW"}
DeepLayers == {"L3", "L4", "L5"}

\* investigate has returned a result (it did not raise)
HasResult == ipc \in {"returned", "extracted", "extract_raised", "posted"}

\* investigate has run to its end, by return or by exception
HasRun == ipc # "start" /\ ipc # "idle"

SeqHas(seq, x) == \E i \in 1..Len(seq) : seq[i] = x

\* 0.40 <= 0.4*ml + 0.3*ring + 0.3*anomaly <= 0.60, in units of 1/10000
FusedInHumanRange(c) ==
    /\ 4000 <= 4 * c.ml + 3 * c.ring + 3 * c.anomaly
    /\ 4 * c.ml + 3 * c.ring + 3 * c.anomaly <= 6000

\* C2: every result investigate returns has a decision among AUTO_APPROVED,
\* AUTO_BLOCKED, HUMAN_REVIEW, also when the decision is the recommendation
\* string of the L5 reply.
C2_DecisionInEnum == HasResult => result.decision \in Decisions

\* C3: every result investigate returns has a confidence in [0, 1], also when
\* the confidence is the one of the parsed L5 reply.
C3_ConfidenceInUnit == HasResult => (0 <= result.confidence /\ result.confidence <= 1000)

C5_ShortCircuitApprove ==
    /\ (HasRun /\ icase.dbfail # "l1" /\ icase.ml < 200) =>
          /\ ~result.raised
          /\ result.decision = "AUTO_APPROVED"
          /\ result.confidence = icase.ml
          /\ result.calls \cap DeepLayers = {}
          /\ ipc = "posted" => payload.investigationLayers = <<"RULE_BASED", "ML_MODELS">>
    /\ (HasRun /\ icase.dbfail # "l1" /\ icase.ml = 200) => "L3" \in result.calls

C5_Witness ==
    /\ ipc = "posted"
    /\ icase.ml = 190
    /\ result.decision = "AUTO_APPROVED"
    /\ payload.investigationLayers = <<"RULE_BASED", "ML_MODELS">>

\* C6: L5 is invoked iff L3 and L4 have both run and the fused score lies in
\* [0.40, 0.60], bounds included; details.layer5_invoked and LLM_REASONING in
\* the verdict's investigationLayers are true in exactly that case.
C6_L5IffBorderline ==
    HasRun =>
        LET borderline == {"L3", "L4"} \subseteq result.calls /\ FusedInHumanRange(icase) IN
        /\ ("L5" \in result.calls) <=> borderline
        /\ HasResult => (Get(result.details, "layer5_invoked", FALSE) <=> borderline)
        /\ ipc = "posted" =>
              /\ SeqHas(payload.investigationLayers, "LLM_REASONING") <=> borderline
              /\ payload.layer5_invoked <=> borderline

C6_Witness ==
    /\ ipc = "posted"
    /\ 4 * icase.ml + 3 * icase.ring + 3 * icase.anomaly = 4000
    /\ "L5" \in result.calls
    /\ SeqHas(payload.investigationLayers, "LLM_REASONING")

(***************************************************************************)
(* Spec: the worker pool.  main() starts the workers on one Redis          *)
(* connection; each runs worker(): XREAD (count=1, block=5000) after its   *)
(* own last_id, validate, investigate, extract, update_java_api.           *)
(* Each action is the code between two awaits of one worker.  Init is the  *)
(* pool once started on the empty stream: asyncio runs every worker task   *)
(* to its first suspension, the XREAD after '$'.                           *)
(***************************************************************************)

\* The fields of a stream entry that worker() reads.
EntryShapes ==
    { [case_id |-> TRUE,  event_data |-> "json"],
      [case_id |-> TRUE,  event_data |-> "absent"],
      [case_id |-> TRUE,  event_data |-> "garbage"],
      [case_id |-> FALSE, event_data |-> "json"] }

\* if not raw_event_data or not case_id
Malformed(data) == data.event_data = "absent" \/ ~data.case_id

\* json.loads(raw_event_data) raises JSONDecodeError
JsonLoadsRaises(data) == data.event_data = "garbage"

\* last_id = message_id, the first statement of the message loop
LastIdOnlyIfValid(old, message_id, data) ==
    IF Malformed(data) \/ JsonLoadsRaises(data) THEN old ELSE message_id

LastIdAfterRead(old, message_id, data) == message_id

\* where worker() continues after "except Exception": log, sleep(2), loop
WorkerStops == "stopped"

AfterWorkerError == "sleep"

\* (the entry handed to a task of its own, the worker back at the loop head)
HandleEntrySpawned == "loop"

\* a valid entry is handled in the worker itself: it awaits investigate next
HandleEntry == "investigate"

\* (an XREAD that returns the entries from last_id on, last_id included)
ResolveCursorInclusive(w) ==
    IF last_id[w] = Dollar THEN Len(stream) ELSE last_id[w] - 1

\* the id an XREAD waits after: '$' is the last id of the stream at the call
ResolveCursor(w) == IF last_id[w] = Dollar THEN Len(stream) ELSE last_id[w]

\* The transaction of a well-formed entry as the layers see it; its L2 score
\* is below GRAY_AREA_MIN (predict returns at most 0.176).
PoolCase(dbfail) ==
    [dbfail |-> dbfail, ml |-> 100, ring |-> 0, anomaly |-> 0,
     llm |-> [raises |-> TRUE, output |-> <<>>]]

\* A worker action is the event loop resuming the worker, which it does
\* only while no task is inside a synchronous call (blocked = 0).

\* publisher: redis_client.xadd(STREAM_KEY, ...)
Xadd(data) ==
    /\ Len(stream) < MaxEntries
    /\ stream' = Append(stream, [data |-> data])
    /\ UNCHANGED <<pc, last_id, cursor, reads, investigated, posts, log, faults>>
    /\ UNCHANGED <<invvars, fnvars>>
    /\ UNCHANGED <<held, sysvars>>
    /\ UNCHANGED compvars

\* response = await queue.xread({REDIS_QUEUE: last_id}, count=1, block=5000)
XreadIssue(w) ==
    /\ pc[w] = "loop"
    /\ blocked = 0
    /\ cursor' = [cursor EXCEPT ![w] = ResolveCursor(w)]
    /\ pc' = [pc EXCEPT ![w] = "xread"]
    /\ UNCHANGED <<stream, last_id, reads, investigated, posts, log, faults>>
    /\ UNCHANGED <<invvars, fnvars>>
    /\ UNCHANGED <<held, sysvars>>
    /\ UNCHANGED compvars

\* the block time passes with nothing after the cursor: empty response
XreadTimeout(w) ==
    /\ pc[w] = "xread"
    /\ blocked = 0
    /\ Len(stream) <= cursor[w]
    /\ pc' = [pc EXCEPT ![w] = "loop"]
    /\ cursor' = [cursor EXCEPT ![w] = 0]
    /\ UNCHANGED <<stream, last_id, reads, investigated, posts, log, faults>>
    /\ UNCHANGED <<invvars, fnvars>>
    /\ UNCHANGED <<held, sysvars>>
    /\ UNCHANGED compvars

\* xread raises (connection error): except Exception
XreadError(w) ==
    /\ pc[w] = "xread"
    /\ blocked = 0
    /\ faults < MaxFaults
    /\ faults' = faults + 1
    /\ pc' = [pc EXCEPT ![w] = AfterWorkerError]
    /\ cursor' = [cursor EXCEPT ![w] = 0]
    /\ log' = log \cup {<<w, 0, "xread_error">>}
    /\ UNCHANGED <<stream, last_id, reads, investigated, posts>>
    /\ UNCHANGED <<invvars, fnvars>>
    /\ UNCHANGED <<held, sysvars>>
    /\ UNCHANGED compvars

\* xread returns the entry after the cursor; last_id, validation, json.loads
XreadDeliver(w) ==
    /\ pc[w] = "xread"
    /\ blocked = 0
    /\ Len(stream) > cursor[w]
    /\ LET message_id == cursor[w] + 1
           data == stream[message_id].data
       IN  /\ last_id' = [last_id EXCEPT ![w] = LastIdAfterRead(last_id[w], message_id, data)]
           /\ reads' = reads \cup {<<w, message_id>>}
           /\ IF Malformed(data)
              THEN /\ log' = log \cup {<<w, message_id, "malformed">>}
                   /\ pc' = [pc EXCEPT ![w] = "loop"]
              ELSE IF JsonLoadsRaises(data)
              THEN /\ log' = log \cup {<<w, message_id, "json_error">>}
                   /\ pc' = [pc EXCEPT ![w] = AfterWorkerError]
              ELSE /\ log' = log
                   /\ pc' = [pc EXCEPT ![w] = HandleEntry]
    /\ cursor' = [cursor EXCEPT ![w] = 0]
    /\ UNCHANGED <<stream, investigated, posts, faults>>
    /\ UNCHANGED <<invvars, fnvars>>
    /\ UNCHANGED <<held, sysvars>>
    /\ UNCHANGED compvars

\* result = await fraud_system.investigate(case_id, tx_data)
Investigate(w) ==
    /\ pc[w] = "investigate"
    /\ blocked = 0
    /\ investigated' = investigated \cup {<<w, last_id[w]>>}
    /\ \E dbfail \in {"none", "l1"} :
          IF investigate(PoolCase(dbfail)).raised
          THEN /\ faults < MaxFaults
               /\ faults' = faults + 1
               /\ log' = log \cup {<<w, last_id[w], "l1_error">>}
               /\ pc' = [pc EXCEPT ![w] = AfterWorkerError]
               /\ UNCHANGED <<case_history, cases_recorded, held>>
          ELSE /\ faults' = faults
               /\ log' = log
               /\ pc' = [pc EXCEPT ![w] = "extract"]
               /\ cases_recorded' = cases_recorded + 1
               /\ case_history' = add_case(case_history, last_id[w])
               /\ held' = [held EXCEPT ![w] = investigate(PoolCase(dbfail))]
    /\ UNCHANGED <<stream, last_id, cursor, reads, posts>>
    /\ UNCHANGED <<processing_times, times_recorded>>
    /\ UNCHANGED <<l4vars, l5vars, patvars>>
    /\ UNCHANGED <<invvars, fnvars>>
    /\ UNCHANGED sysvars

\* features = await fraud_system.layer1_features.extract(tx_data)
Extract(w) ==
    /\ pc[w] = "extract"
    /\ blocked = 0
    /\ \E db_ok \in BOOLEAN :
          IF db_ok
          THEN /\ faults' = faults
               /\ log' = log
               /\ pc' = [pc EXCEPT ![w] = "post"]
               /\ held' = held
          ELSE /\ faults < MaxFaults
               /\ faults' = faults + 1
               /\ log' = log \cup {<<w, last_id[w], "extract_error">>}
               /\ pc' = [pc EXCEPT ![w] = AfterWorkerError]
               \* the result is not read again before investigate rebinds it
               /\ held' = [held EXCEPT ![w] = NoResult]
    /\ UNCHANGED <<stream, last_id, cursor, reads, investigated, posts>>
    /\ UNCHANGED <<invvars, fnvars>>
    /\ UNCHANGED sysvars
    /\ UNCHANGED compvars

\* await update_java_api(...): one session.post; a non-200 reply or an
\* exception is logged inside update_java_api
Post(w) ==
    /\ pc[w] = "post"
    /\ blocked = 0
    /\ LET res == held[w] IN
       \* one session.post per call of update_java_api: always attempt 1
       posts' = posts \cup {[w |-> w, id |-> last_id[w], attempt |-> 1,
                             decision |-> res.decision, confidence |-> res.confidence]}
    /\ \E outcome \in {"200", "non200", "exception"} :
          IF outcome = "200"
          THEN /\ faults' = faults
               /\ log' = log
          ELSE /\ faults < MaxFaults
               /\ faults' = faults + 1
               /\ log' = log \cup {<<w, last_id[w], "post_failed">>}
    /\ pc' = [pc EXCEPT ![w] = "loop"]
    /\ UNCHANGED <<stream, last_id, cursor, reads, investigated>>
    /\ UNCHANGED <<invvars, fnvars>>
    \* the result is not read again before investigate rebinds it
    /\ held' = [held EXCEPT ![w] = NoResult]
    /\ UNCHANGED sysvars
    /\ UNCHANGED compvars

\* await asyncio.sleep(2) ends
Wake(w) ==
    /\ pc[w] = "sleep"
    /\ blocked = 0
    /\ pc' = [pc EXCEPT ![w] = "loop"]
    /\ UNCHANGED <<stream, last_id, cursor, reads, investigated, posts, log, faults>>
    /\ UNCHANGED <<invvars, fnvars>>
    /\ UNCHANGED <<held, sysvars>>
    /\ UNCHANGED compvars

WorkerStep(w) ==
    \/ XreadIssue(w)
    \/ XreadTimeout(w)
    \/ XreadError(w)
    \/ XreadDeliver(w)
    \/ Investigate(w)
    \/ Extract(w)
    \/ Post(w)
    \/ Wake(w)

\* no single investigation is being followed
InvIdle ==
    /\ icase = NoCase
    /\ ipc = "idle"
    /\ result = NoResult
    /\ payload = NoPayload

Init ==
    /\ PoolInit
    /\ CompInit
    /\ InvIdle
    /\ FnIdle

Next ==
    \/ \E data \in EntryShapes : Xadd(data)
    \/ \E w \in Workers : WorkerStep(w)

Spec == Init /\ [][Next]_vars

\* asyncio runs every ready task, and every awaited call returns or raises
FairSpec == Spec /\ \A w \in Workers : WF_vars(WorkerStep(w))

(***************************************************************************)
(* Properties of the worker pool (Spec, FairSpec).                         *)
(***************************************************************************)
Ids == 1..Len(stream)

Handling == {"investigate", "extract", "post"}

\* the entry has the case id and an event_data that decodes
WellFormed(data) == data.case_id /\ data.event_data = "json"

\* the entry has no event_data, or an event_data that is not valid JSON
BadEventData(data) == data.event_data = "absent" \/ data.event_data = "garbage"

NumPosts(i) == Cardinality({p \in posts : p.id = i})

Logged(w, i) == \E t \in {"malformed", "json_error", "l1_error", "extract_error", "post_failed"} :
                    <<w, i, t>> \in log

\* worker w has read entry i and is through with it (back at the loop head)
Done(w, i) ==
    /\ <<w, i>> \in reads
    /\ ~(last_id[w] = i /\ pc[w] \in Handling \cup {"sleep"})

\* worker w has not read entry i and its next XREADs will return it
WillRead(w, i) ==
    /\ <<w, i>> \notin reads
    /\ IF pc[w] = "xread" THEN cursor[w] < i
       ELSE last_id[w] # Dollar /\ last_id[w] < i

\* C1: every well-formed entry gets exactly one verdict POST across the pool:
\* never more than one, and at least one once a worker has handled it without
\* logging an error.
C1_ExactlyOneVerdict ==
    \A i \in Ids :
        WellFormed(stream[i].data) =>
            /\ NumPosts(i) <= 1
            /\ (\E w \in Workers : Done(w, i) /\ ~Logged(w, i)) => NumPosts(i) >= 1

\* C7: when a history query of L1 fails for a case, the case still gets a
\* verdict, and that verdict is HUMAN_REVIEW with confidence 0.5.
C7_L1FailureGetsHumanReview ==
    \A w \in Workers : \A i \in Ids :
        (<<w, i, "l1_error">> \in log /\ Done(w, i)) =>
            \E p \in posts : p.id = i /\ p.decision = "HUMAN_REVIEW" /\ p.confidence = 500

\* C8: no entry appended after the workers have started is lost: at every
\* moment each entry has been read by some worker or is still ahead of the
\* cursor of some worker.
C8_NoEntryLost ==
    \A i \in Ids : \E w \in Workers : <<w, i>> \in reads \/ WillRead(w, i)

\* C9: a bad case never stops a worker: whatever happened to the entry it
\* read, a worker always issues its next stream read, and every entry a
\* worker is through with has its verdict POST or an error in the log.
C9_WorkerSurvives ==
    /\ \A w \in Workers : (pc[w] # "xread") ~> (pc[w] = "xread")
    /\ [](\A w \in Workers : \A i \in Ids :
            Done(w, i) => ((\E p \in posts : p.w = w /\ p.id = i) \/ Logged(w, i)))

C9_Witness ==
    \E w \in Workers : \E i \in Ids :
        /\ Done(w, i)
        /\ \E t \in {"json_error", "l1_error", "extract_error", "post_failed"} : <<w, i, t>> \in log
        /\ pc[w] = "xread"

\* C10: a worker that read an entry without event_data, or with event_data
\* that is not valid JSON, neither investigates it nor posts a verdict for
\* it, and its last_id is that of the entry or a later one, so that no later
\* XREAD of the worker returns the entry again.
C10_MalformedSkipped ==
    \A w \in Workers : \A i \in Ids :
        (<<w, i>> \in reads /\ BadEventData(stream[i].data)) =>
            /\ <<w, i>> \notin investigated
            /\ ~\E p \in posts : p.w = w /\ p.id = i
            /\ last_id[w] # Dollar /\ last_id[w] >= i
            /\ pc[w] = "xread" => cursor[w] >= i

C10_Witness ==
    \E w \in Workers : \E i \in Ids :
        /\ <<w, i>> \in reads
        /\ BadEventData(stream[i].data)
        /\ <<w, i + 1>> \in reads

\* the entry transaction_publisher.py writes: xadd(STREAM_KEY, {'event_data': ...})
PublisherEntry == [case_id |-> FALSE, event_data |-> "json"]

\* C11: an entry {event_data: <valid json>} as the publisher's xadd writes it
\* is well-formed for the worker: it is never logged as malformed, it is
\* investigated, and once the worker is through with it the entry has its
\* verdict POST unless an error was logged for it.
C11_PublisherEntryHandled ==
    \A w \in Workers : \A i \in Ids :
        (<<w, i>> \in reads /\ stream[i].data = PublisherEntry) =>
            /\ <<w, i, "malformed">> \notin log
            /\ Done(w, i) => <<w, i>> \in investigated
            /\ Done(w, i) => ((\E p \in posts : p.w = w /\ p.id = i) \/ Logged(w, i))

(***************************************************************************)
(* SpecL4: detect_anomalies called for any mix of users.  The feature      *)
(* vector of a call is written as the number of the call among the calls   *)
(* of its user, which is what the order of the buffer is stated in.        *)
(***************************************************************************)
DetectAnomalies(u) ==
    /\ l4_calls[u] < MaxCallsPerUser
    /\ l4_calls' = [l4_calls EXCEPT ![u] = @ + 1]
    /\ sequence_cache' = detect_anomalies(sequence_cache, u, l4_calls[u] + 1)
    /\ UNCHANGED <<ringvars, l5vars, patvars>>
    /\ UNCHANGED poolvars
    /\ UNCHANGED <<invvars, fnvars>>

InitL4 ==
    /\ PoolInit
    /\ CompInit
    /\ InvIdle
    /\ FnIdle

NextL4 == \E u \in Users : DetectAnomalies(u)

SpecL4 == InitL4 /\ [][NextL4]_vars

Min(a, b) == IF a <= b THEN a ELSE b

\* the last k of the vectors 1..n, oldest first
LastOf(n, k) == [i \in 1..Min(n, k) |-> n - Min(n, k) + i]

\* C12: after any sequence of detect_anomalies calls for any mix of users,
\* the buffer of every user holds at most 10 vectors, and they are the most
\* recent vectors of that user in call order.
C12_SequenceBufferBounded ==
    \A u \in Users :
        /\ Len(sequence_cache[u]) <= 10
        /\ sequence_cache[u] = LastOf(l4_calls[u], 10)

C12_Witness ==
    \E u \in Users : \E v \in Users :
        /\ u # v
        /\ l4_calls[u] = 12
        /\ sequence_cache[u] = <<3, 4, 5, 6, 7, 8, 9, 10, 11, 12>>
        /\ l4_calls[v] = 1

(***************************************************************************)
(* SpecRings: the two rings under any sequence of completed                *)
(* investigations.  An investigation that returns at a short-circuit gate  *)
(* calls _record_case only; one that returns from the gray path calls      *)
(* _record_case and then appends its processing time.  A recorded case is  *)
(* written as its number among the recorded cases, a sample as its number  *)
(* among the samples.  The runs start from the empty rings and from rings  *)
(* two short of full (the state after that many appends, none of which     *)
(* found its ring full), and go on for MaxRecords investigations.          *)
(***************************************************************************)
NearFull(maxlen) == maxlen - 2

FirstN(n) == [i \in 1..n |-> i]

FinishInvestigation(gray) ==
    /\ \E start \in {0, NearFull(CASE_HISTORY_MAXLEN)} :
          start <= cases_recorded /\ cases_recorded < start + MaxRecords
    /\ cases_recorded' = cases_recorded + 1
    /\ case_history' = add_case(case_history, cases_recorded + 1)
    /\ IF gray
       THEN /\ times_recorded' = times_recorded + 1
            /\ processing_times' = AppendProcessingTime(processing_times, times_recorded + 1)
       ELSE UNCHANGED <<processing_times, times_recorded>>
    /\ UNCHANGED <<l4vars, l5vars, patvars>>
    /\ UNCHANGED poolvars
    /\ UNCHANGED <<invvars, fnvars>>

InitRings ==
    /\ PoolInit
    /\ InvIdle
    /\ FnIdle
    /\ sequence_cache = [u \in Users |-> <<>>]
    /\ l4_calls = [u \in Users |-> 0]
    /\ cache = <<>>
    /\ llm_returned = {}
    /\ llm_requests = 0
    /\ cases_recorded \in {0, NearFull(CASE_HISTORY_MAXLEN)}
    /\ times_recorded \in {0, NearFull(PROCESSING_TIMES_MAXLEN)}
    /\ times_recorded <= cases_recorded
    /\ case_history = FirstN(cases_recorded)
    /\ processing_times = FirstN(times_recorded)
    /\ discovered_patterns = <<>>
    /\ discovery = "none"
    /\ update_buffer = <<>>
    /\ feedback = NoFeedback

NextRings == \E gray \in BOOLEAN : FinishInvestigation(gray)

SpecRings == InitRings /\ [][NextRings]_vars

\* C13: the processed-case ring never holds more than 10 000 cases and the
\* processing-time ring never more than 1 000 samples; each ring holds the
\* most recent of the elements appended to it, so an append to a full ring
\* has dropped the oldest element.
C13_RingsBounded ==
    /\ Len(case_history) <= 10000
    /\ Len(processing_times) <= 1000
    /\ case_history = LastOf(cases_recorded, 10000)
    /\ processing_times = LastOf(times_recorded, 1000)

C13_Witness ==
    /\ cases_recorded = 10002
    /\ Len(case_history) = 10000
    /\ case_history[1] = 3
    /\ times_recorded = 1001
    /\ Len(processing_times) = 1000
    /\ processing_times[1] = 2

(***************************************************************************)
(* FraudDatabaseService: the pattern queries of fraud_db_service.py over   *)
(* the transactions table.  A row is [user_id, amount, transaction_type,   *)
(* age_hours], age_hours being NOW() - created_at; the table lists the     *)
(* rows in order of created_at.  Amounts are whole, non-negative numbers;  *)
(* x < y * 0.8 is computed as 10 * x < 8 * y.                              *)
(***************************************************************************)
\* WHERE user_id = $1 AND created_at >= NOW() - INTERVAL '48 hours'
\*   AND amount BETWEEN 9500 AND 9999 AND transaction_type = 'DEPOSIT'
StructuringRow(r, user_id) ==
    /\ r.user_id = user_id
    /\ r.age_hours <= 48
    /\ 9500 <= r.amount /\ r.amount <= 9999
    /\ r.transaction_type = "DEPOSIT"

\* is_structuring = count >= 3 and 9500 <= current_amount <= 9999
IsStructuringAnyAmount(count, current_amount) == count >= 3

IsStructuring(count, current_amount) ==
    count >= 3 /\ 9500 <= current_amount /\ current_amount <= 9999

detect_structuring(tbl, user_id, current_amount) ==
    LET rows == SelectSeq(tbl, LAMBDA r : StructuringRow(r, user_id))
        count == Len(rows)
    IN  [is_structuring |-> IsStructuring(count, current_amount),
         similar_transactions_48h |-> count]

\* WHERE user_id = $1 AND created_at >= NOW() - INTERVAL '7 days'
\* ORDER BY created_at ASC
EscalationRow(r, user_id) == r.user_id = user_id /\ r.age_hours <= 168

\* all(amounts[i] < amounts[i+1] * 0.8 for i in range(len(amounts)-1))
IsEscalatingLastStepOnly(amounts) ==
    10 * amounts[Len(amounts) - 1] < 8 * amounts[Len(amounts)]

IsEscalating(amounts) ==
    \A i \in 1..(Len(amounts) - 1) : 10 * amounts[i] < 8 * amounts[i + 1]

\* escalation_ratio is in thousandths
detect_rapid_escalation(tbl, user_id, current_amount) ==
    LET rows == SelectSeq(tbl, LAMBDA r : EscalationRow(r, user_id)) IN
    IF Len(rows) < 2
    THEN [is_escalating |-> FALSE, escalation_ratio |-> 0,
          previous_amounts |-> <<>>, transaction_count |-> 0]
    ELSE LET amounts == Append([i \in 1..Len(rows) |-> rows[i].amount], current_amount) IN
         [is_escalating |-> IsEscalating(amounts),
          escalation_ratio |-> IF amounts[1] > 0
                               THEN (1000 * current_amount) \div amounts[1] ELSE 0,
          previous_amounts |-> SubSeq(amounts, 1, Len(amounts) - 1),
          transaction_count |-> Len(amounts) - 1]

(***************************************************************************)
(* SpecDb: AdvancedFeatureExtractor.extract, lines 210-218, for user 1 on  *)
(* every table of up to MaxRows rows built from the row kinds below.       *)
(***************************************************************************)
Row(u, a, t, h) == [user_id |-> u, amount |-> a, transaction_type |-> t, age_hours |-> h]

StructuringRows ==
    { Row(1, 9500, "DEPOSIT", 1), Row(1, 9999, "DEPOSIT", 48),
      Row(1, 9499, "DEPOSIT", 1), Row(1, 10000, "DEPOSIT", 1),
      Row(1, 9600, "WITHDRAWAL", 1), Row(1, 9600, "DEPOSIT", 49),
      Row(2, 9600, "DEPOSIT", 1) }

EscalationRows ==
    { Row(1, 0, "DEPOSIT", 100), Row(1, 64, "DEPOSIT", 100),
      Row(1, 80, "WITHDRAWAL", 100), Row(1, 81, "DEPOSIT", 100),
      Row(1, 100, "DEPOSIT", 168), Row(1, 1, "DEPOSIT", 169),
      Row(2, 1, "DEPOSIT", 100) }

CurrentAmounts == {0, 81, 100, 102, 9499, 9500, 9999, 10000}

\* created_at never decreases along the table
Chronological(tbl) == \A i \in 1..(Len(tbl) - 1) : tbl[i].age_hours >= tbl[i + 1].age_hours

TablesOf(rows) ==
    {tbl \in UNION {[1..n -> rows] : n \in 0..MaxRows} : Chronological(tbl)}

Tables == TablesOf(StructuringRows) \cup TablesOf(EscalationRows)

ExtractPatterns ==
    /\ call.op = "extract"
    /\ ret = NoRet
    /\ LET escalation == detect_rapid_escalation(table, call.user_id, call.amount)
           structuring == detect_structuring(table, call.user_id, call.amount)
       IN  ret' = [op |-> "extract",
                   escalation |-> escalation,
                   structuring |-> structuring,
                   features |->
                      [is_escalating |-> IF escalation.is_escalating THEN 1000 ELSE 0,
                       escalation_ratio |-> Min(escalation.escalation_ratio, 10000),
                       is_structuring |-> IF structuring.is_structuring THEN 1000 ELSE 0,
                       similar_txns_48h |-> structuring.similar_transactions_48h]]
    /\ UNCHANGED <<table, call>>
    /\ UNCHANGED poolvars
    /\ UNCHANGED invvars
    /\ UNCHANGED compvars

InitDb ==
    /\ PoolInit
    /\ CompInit
    /\ InvIdle
    /\ table \in Tables
    /\ call \in [op : {"extract"}, user_id : {1}, amount : CurrentAmounts]
    /\ ret = NoRet

NextDb == ExtractPatterns

SpecDb == InitDb /\ [][NextDb]_vars

Extracted == ret # NoRet /\ ret.op = "extract"

InStructuringRange(a) == 9500 <= a /\ a <= 9999

\* the positions of the user's deposits of the last 48 hours in [9500, 9999]
SimilarDeposits48h ==
    {i \in 1..Len(table) :
        /\ table[i].user_id = call.user_id
        /\ table[i].transaction_type = "DEPOSIT"
        /\ table[i].age_hours <= 48
        /\ InStructuringRange(table[i].amount)}

\* C14: whenever detect_structuring returns is_structuring = true (and the
\* feature is_structuring is 1.0), the current amount lies in [9500, 9999]
\* and the user has at least 3 deposits of the last 48 hours with amounts
\* in [9500, 9999].
C14_StructuringImplies ==
    Extracted =>
        /\ (ret.features.is_structuring = 1000) <=> ret.structuring.is_structuring
        /\ ret.structuring.is_structuring =>
              /\ InStructuringRange(call.amount)
              /\ Cardinality(SimilarDeposits48h) >= 3

C14_Witness ==
    /\ Extracted
    /\ ret.structuring.is_structuring
    /\ ret.features.is_structuring = 1000
    /\ call.amount = 9999
    /\ Cardinality(SimilarDeposits48h) = 3
    /\ Len(table) = 4

\* the user's amounts of the last 7 days in order of created_at, then the
\* current amount
AmountsWithCurrent ==
    LET idx == {i \in 1..Len(table) :
                   table[i].user_id = call.user_id /\ table[i].age_hours <= 168}
        nth(k) == CHOOSE i \in idx : Cardinality({j \in idx : j < i}) = k - 1
    IN  [k \in 1..(Cardinality(idx) + 1) |->
            IF k <= Cardinality(idx) THEN table[nth(k)].amount ELSE call.amount]

\* C15: whenever detect_rapid_escalation returns is_escalating = true, the
\* user's amounts of the last 7 days followed by the current amount are
\* strictly increasing and every amount is less than 0.8 times the next one,
\* the step to the current amount included; with fewer than 2 prior rows
\* the flag is false and the ratio is 0.
C15_EscalationImplies ==
    Extracted =>
        LET a == AmountsWithCurrent IN
        /\ ret.escalation.is_escalating =>
              \A i \in 1..(Len(a) - 1) : a[i] < a[i + 1] /\ 10 * a[i] < 8 * a[i + 1]
        /\ Len(a) - 1 < 2 =>
              ~ret.escalation.is_escalating /\ ret.escalation.escalation_ratio = 0

C15_Witness ==
    /\ Extracted
    /\ ret.escalation.is_escalating
    /\ AmountsWithCurrent = <<0, 64, 81, 102>>
    /\ Len(table) = 4

(***************************************************************************)
(* SpecL5: LLMFraudReasoning.reason called by the workers for any mix of   *)
(* contexts, the endpoint free to answer differently at every call.  The   *)
(* client is the synchronous OpenAI client and _llm_inference has no       *)
(* await, so await self._llm_inference(context) never suspends: a call of  *)
(* reason runs from the cache lookup to the cache store in one step.       *)
(***************************************************************************)
Contexts == 1..NContexts

Reason(w, context_hash) ==
    \E reply \in LLMReplies :
        /\ cache' = ReasonCache(cache, context_hash, reply)
        /\ llm_returned' = llm_returned \cup
              {[w |-> w, context |-> context_hash,
                verdict |-> ReasonReturn(cache, context_hash, reply)]}
        /\ llm_requests' = llm_requests + ReasonRequests(cache, context_hash)
        /\ UNCHANGED <<l4vars, ringvars, patvars>>
        /\ UNCHANGED poolvars
        /\ UNCHANGED <<invvars, fnvars>>

InitL5 ==
    /\ PoolInit
    /\ CompInit
    /\ InvIdle
    /\ FnIdle

NextL5 == \E w \in Workers : \E context_hash \in Contexts : Reason(w, context_hash)

SpecL5 == InitL5 /\ [][NextL5]_vars

\* C16: all calls of reason with the same canonical context return the same
\* verdict, whichever worker makes them and whatever the endpoint would
\* answer to a repeated call.
C16_SameContextSameVerdict ==
    \A r1 \in llm_returned : \A r2 \in llm_returned :
        r1.context = r2.context => r1.verdict = r2.verdict

C16_Witness ==
    \E r1 \in llm_returned : \E r2 \in llm_returned : \E r3 \in llm_returned :
        /\ r1.context = r2.context /\ r1.w # r2.w
        /\ r1.context \in DOMAIN cache /\ cache[r1.context] = r1.verdict
        /\ r3.context # r1.context /\ r3.verdict # r1.verdict

(***************************************************************************)
(* LAYER 1 -> LAYER 2: the features predict reads, as extract computes     *)
(* them from the transaction and the device/ip history, and the rule       *)
(* trees of LightweightGradientBoostingDetector.  Scores, ratios and       *)
(* weights-times-scores are in thousandths; every rule score times its     *)
(* tree weight, divided by the 5 trees, is a whole number of thousandths.  *)
(* A transaction is [amount, income, age_tenths (account age in tenths of  *)
(* an hour), isSanctionedCountry, isHighRiskCountry, isTor, anon (isVpn    *)
(* and isProxy), documentScore, riskLevel, employmentStatus]; hist is what *)
(* get_device_history and get_ip_history return as unique_users.           *)
(***************************************************************************)
Flag(b) == IF b THEN 1 ELSE 0

Max2(a, b) == IF a >= b THEN a ELSE b

_employment_risk_score(status) ==
    IF status = "UNEMPLOYED" THEN 700
    ELSE IF status = "STUDENT" THEN 500
    ELSE IF status = "SELF_EMPLOYED" THEN 300
    ELSE IF status = "EMPLOYED" THEN 100
    ELSE IF status = "RETIRED" THEN 200
    ELSE 500

extract(tx, hist) ==
    [amount_raw |-> tx.amount,
     amount_income_ratio |-> (1000 * tx.amount) \div Max2(tx.income, 1),
     is_new_account |-> Flag(tx.age_tenths < 240),
     is_very_new |-> Flag(tx.age_tenths < 10),
     device_user_count |-> hist.device_users,
     shared_device |-> Flag(hist.device_users > 1),
     shared_ip |-> Flag(hist.ip_users > 1),
     network_risk_score |-> Min(((hist.device_users + hist.ip_users) * 1000) \div 20, 1000),
     employment_risk |-> _employment_risk_score(tx.employmentStatus),
     risk_level_high |-> Flag(tx.riskLevel = "HIGH"),
     ip_is_tor |-> Flag(tx.isTor),
     ip_is_sanctioned |-> Flag(tx.isSanctionedCountry),
     ip_is_high_risk |-> Flag(tx.isHighRiskCountry),
     ip_anonymity_score |-> ((Flag(tx.anon) + Flag(tx.isTor) + Flag(tx.anon)) * 1000) \div 4,
     doc_risk |-> 1000 - tx.documentScore]

\* one rule: lambda f: score if condition else 0.0
Rule(score, condition) == IF condition THEN {score} ELSE {}

\* _initialize_trees: each tree with the scores of its rules on f
decision_trees(f) ==
    << [name |-> "amount_rules", weight |-> 250,
        scores |-> Rule(900, f.amount_income_ratio > 15000)
              \cup Rule(700, f.amount_income_ratio > 10000)
              \cup Rule(500, f.amount_income_ratio > 5000)],
       [name |-> "velocity_rules", weight |-> 200,
        scores |-> Rule(950, f.is_very_new = 1 /\ f.amount_raw > 5000)
              \cup Rule(850, f.is_new_account = 1 /\ f.amount_raw > 10000)
              \cup Rule(600, Get(f, "transactions_per_day", 0) > 10)],
       [name |-> "network_rules", weight |-> 200,
        scores |-> Rule(800, f.network_risk_score > 700)
              \cup Rule(600, f.device_user_count > 5)
              \cup Rule(500, f.shared_device = 1 /\ f.shared_ip = 1)],
       [name |-> "geo_rules", weight |-> 200,
        scores |-> Rule(1000, f.ip_is_sanctioned = 1)
              \cup Rule(800, f.ip_is_high_risk = 1 /\ f.ip_is_tor = 1)
              \cup Rule(600, f.ip_anonymity_score > 500)],
       [name |-> "identity_rules", weight |-> 150,
        scores |-> Rule(700, f.doc_risk > 600)
              \cup Rule(500, f.risk_level_high = 1)
              \cup Rule(400, f.employment_risk > 500)] >>

SetMax(S) == CHOOSE x \in S : \A y \in S : y <= x

\* (the largest rule score of the tree with a weight of 1.0)
_evaluate_tree_unweighted(tree) ==
    IF tree.scores = {} THEN 0 ELSE SetMax({s \in tree.scores : s > 0}) * 1000

\* max(scores) * tree['weight'], in millionths
_evaluate_tree(tree) ==
    IF tree.scores = {} THEN 0 ELSE SetMax({s \in tree.scores : s > 0}) * tree.weight

RECURSIVE SumSeq(_)
SumSeq(q) == IF q = <<>> THEN 0 ELSE q[1] + SumSeq(Tail(q))

_calculate_importance(f, probability) ==
    IF probability > 500
    THEN [top_risk_factors |->
            (IF f.amount_income_ratio > 5000 THEN {"high_income_ratio"} ELSE {})
            \cup (IF f.ip_is_sanctioned = 1 THEN {"sanctioned_country"} ELSE {})
            \cup (IF f.ip_anonymity_score > 500 THEN {"anonymous_connection"} ELSE {})
            \cup (IF f.is_new_account = 1 THEN {"new_account"} ELSE {})
            \cup (IF f.network_risk_score > 600 THEN {"shared_resources"} ELSE {})]
    ELSE <<>>

\* probability = np.mean(tree_predictions), in thousandths
predict(f) ==
    LET trees == decision_trees(f)
        tree_predictions == [i \in 1..Len(trees) |-> _evaluate_tree(trees[i])]
        probability == SumSeq(tree_predictions) \div (Len(trees) * 1000)
    IN  [probability |-> probability, importance |-> _calculate_importance(f, probability)]

(***************************************************************************)
(* SpecL2: investigate from the transaction on: extract, predict, and then *)
(* the gates, the deeper layers and the payload as in SpecInv, with the L2 *)
(* score predict computed.                                                 *)
(***************************************************************************)
Transactions ==
    [amount : {50, 6000, 11000, 200000},
     income : {1000, 5000},
     age_tenths : {5, 100, 96000},
     isSanctionedCountry : BOOLEAN,
     isHighRiskCountry : BOOLEAN,
     isTor : BOOLEAN,
     anon : BOOLEAN,
     documentScore : {300, 950},
     riskLevel : {"HIGH", "LOW"},
     employmentStatus : {"UNEMPLOYED", "EMPLOYED"}]

Histories == [device_users : {1, 6, 10}, ip_users : {1, 10}]

\* what L3, L4 and the LLM endpoint would return for the case
DeeperOutputs ==
    { [ring |-> 0, anomaly |-> 0, llm |-> [raises |-> TRUE, output |-> <<>>]],
      [ring |-> 1000, anomaly |-> 1000,
       llm |-> [raises |-> FALSE, output |-> <<LB, Rec("BLOCK"), Reasoning, Conf(900), RB>>]] }

\* features = await self.layer1_features.extract(tx)
L2Extract ==
    /\ call.op = "investigate"
    /\ ret = NoRet
    /\ ret' = [op |-> "extract", features |-> extract(call.tx, call.hist)]
    /\ UNCHANGED <<table, call>>
    /\ UNCHANGED poolvars
    /\ UNCHANGED invvars
    /\ UNCHANGED compvars

\* ml_score, feature_importance = self.layer2_ml.predict(features)
L2Predict ==
    /\ ret.op = "extract"
    /\ LET p == predict(ret.features) IN
       /\ ret' = [op |-> "predict", features |-> ret.features,
                  probability |-> p.probability, importance |-> p.importance]
       /\ \E d \in DeeperOutputs :
             icase' = [dbfail |-> "none", ml |-> p.probability,
                       ring |-> d.ring, anomaly |-> d.anomaly, llm |-> d.llm]
    /\ ipc' = "start"
    /\ UNCHANGED <<table, call, result, payload>>
    /\ UNCHANGED poolvars
    /\ UNCHANGED compvars

InitL2 ==
    /\ PoolInit
    /\ CompInit
    /\ InvIdle
    /\ table = <<>>
    /\ call \in [op : {"investigate"}, tx : Transactions, hist : Histories]
    /\ ret = NoRet

NextL2 ==
    \/ L2Extract
    \/ L2Predict
    \/ InvInvestigate
    \/ InvExtract
    \/ InvUpdateJavaApi

SpecL2 == InitL2 /\ [][NextL2]_vars

\* the transaction of scenario S2
S2(tx) ==
    /\ tx.amount = 200000
    /\ tx.income = 1000
    /\ tx.isSanctionedCountry
    /\ tx.isTor
    /\ tx.age_tenths = 5

\* C17: for the S2 transaction (amount 200000, income 1000, sanctioned and
\* tor ip, account age 0.5 h) the score predict computes is above 0.80 and
\* investigate returns AUTO_BLOCKED.
C17_S2AutoBlocked ==
    (call.op = "investigate" /\ S2(call.tx)) =>
        /\ ret.op = "predict" => ret.probability > 800
        /\ HasResult => result.decision = "AUTO_BLOCKED"

(***************************************************************************)
(* Further properties of investigate and of the verdict payload (SpecInv). *)
(***************************************************************************)
Statuses == {"AUTO_APPROVED", "AUTO_BLOCKED", "UNDER_INVESTIGATION"}

\* C18: in every verdict payload the status is AUTO_APPROVED, AUTO_BLOCKED
\* or UNDER_INVESTIGATION; it is AUTO_BLOCKED iff the decision is
\* AUTO_BLOCKED, AUTO_APPROVED iff the decision is AUTO_APPROVED, and
\* UNDER_INVESTIGATION when the decision is HUMAN_REVIEW.
C18_StatusMapping ==
    ipc = "posted" =>
        /\ payload.status \in Statuses
        /\ (payload.status = "AUTO_BLOCKED") <=> (result.decision = "AUTO_BLOCKED")
        /\ (payload.status = "AUTO_APPROVED") <=> (result.decision = "AUTO_APPROVED")
        /\ result.decision = "HUMAN_REVIEW" => payload.status = "UNDER_INVESTIGATION"

C18_Witness ==
    /\ ipc = "posted"
    /\ result.decision = "HUMAN_REVIEW"
    /\ "L5" \notin result.calls
    /\ payload.status = "UNDER_INVESTIGATION"

\* the LLM call raised, or its reply has no braces, or the text from the
\* first "{" to the last "}" is not valid JSON
LLMFailed(reply) ==
    \/ reply.raises
    \/ ~HasTok(reply.output, LB)
    \/ ~HasTok(reply.output, RB)
    \/ ~ValidJson(SubSeq(reply.output, Find(reply.output, LB), RFind(reply.output, RB)))

C20_L3FailureDegrades ==
    (HasRun /\ icase.dbfail = "l3" /\ "L3" \in result.calls) =>
        /\ ~result.raised
        /\ result.details.layer3_ring_score = 0
        /\ "layer_unavailable" \in DOMAIN result.details
        /\ result.decision \in Decisions

(***************************************************************************)
(* Further properties of the worker pool, under Spec.                      *)
(***************************************************************************)

\* C21: when the verdict POST of an entry failed (exception or non-200), the
\* POST was attempted again before the failure was logged, and the worker's
\* last-seen stream id is not behind the entry.
C21_PostRetried ==
    \A w \in Workers : \A i \in Ids :
        <<w, i, "post_failed">> \in log =>
            /\ \E p \in posts : p.w = w /\ p.id = i /\ p.attempt >= 2
            /\ last_id[w] >= i

(***************************************************************************)
(* Further properties of investigate and of the payload, under SpecInv.    *)
(***************************************************************************)

\* the case went through layers 3 and 4 and layer 5 was not invoked
ClearPath == HasResult /\ "L4" \in result.calls /\ "L5" \notin result.calls

\* 0.4*ml + 0.3*ring + 0.3*anomaly of the case, in units of 1/10000
Fused(c) == 4 * c.ml + 3 * c.ring + 3 * c.anomaly

\* C24: for a gray-area case that does not invoke L5, the decision is
\* AUTO_BLOCKED iff combined >= 0.80, AUTO_APPROVED iff combined <= 0.20 and
\* HUMAN_REVIEW otherwise, and the confidence is the combined score.
C24_ClearDecision ==
    ClearPath =>
        /\ (result.decision = "AUTO_BLOCKED") <=> (Fused(icase) >= 8000)
        /\ (result.decision = "AUTO_APPROVED") <=> (Fused(icase) <= 2000)
        /\ (result.decision = "HUMAN_REVIEW") <=>
               (2000 < Fused(icase) /\ Fused(icase) < 8000)
        /\ 10 * result.confidence = Fused(icase)

\* the fused score is exactly 0.80 and the case is blocked
C24_Witness ==
    /\ ipc = "posted"
    /\ ClearPath
    /\ Fused(icase) = 8000
    /\ result.decision = "AUTO_BLOCKED"
    /\ result.confidence = 800

\* C29: in every verdict payload the reported L2 score (layer2_ml_score of
\* detectionSignals, score of aiSignals.ml_analysis) is the ml_score computed
\* for the case, and ml_analysis.decision is BLOCKED exactly when that score
\* is above 0.8 and APPROVED exactly when it is below 0.2.
C29_PayloadL2Score ==
    ipc = "posted" =>
        /\ payload.layer2_ml_score = icase.ml
        /\ payload.ml_analysis_score = icase.ml
        /\ (payload.ml_analysis_decision = "BLOCKED") <=> (icase.ml > 800)
        /\ (payload.ml_analysis_decision = "APPROVED") <=> (icase.ml < 200)

\* C30: the record appended for an investigation that measured its
\* processing time, and processingTimeMs of the payload of that case, carry
\* the measured time.
C30_ProcessingTimeCarried ==
    (HasResult /\ "processing_time_ms" \in DOMAIN result) =>
        /\ case_history[Len(case_history)].processing_time_ms = result.processing_time_ms
        /\ ipc = "posted" => payload.processingTimeMs = result.processing_time_ms

(***************************************************************************)
(* LAYER 3: GraphFraudDetector.analyze.  The answer of                     *)
(* find_connected_users is written as the number of connected users and    *)
(* the number of them with risk_level HIGH; the transactions of the last   *)
(* 7 days are written, hour bucket by hour bucket, as the number of        *)
(* distinct users of the query that transacted in the bucket.              *)
(***************************************************************************)
MaxConnected == 12
MaxHighRisk == 2
NBuckets == 2
MaxBucketUsers == 3

\* score based on number of connections
ConnectionScore(connected) ==
    IF connected >= 5 THEN 500
    ELSE IF connected >= 3 THEN 300
    ELSE IF connected >= 1 THEN 100
    ELSE 0

\* score based on high-risk connections
HighRiskScore(high_risk_count) ==
    IF high_risk_count >= 2 THEN 400
    ELSE IF high_risk_count >= 1 THEN 200
    ELSE 0

\* (the query made on the caller plus every connected user)
QueriedUsersAll(connected) == 1 + connected

\* len([user_id] + connected_users[:10])
QueriedUsers(connected) == 1 + Min(connected, 10)

\* FraudDatabaseService.check_coordinated_timing, for a list of n_user_ids
\* users and the hour buckets of their transactions
check_coordinated_timing(n_user_ids, hour_buckets) ==
    IF n_user_ids < 2
    THEN [is_coordinated |-> FALSE]
    ELSE [is_coordinated |->
             \E b \in DOMAIN hour_buckets : hour_buckets[b] >= Min(3, n_user_ids)]

analyze(connections, hour_buckets) ==
    LET connected == connections.connected_user_count
        base == ConnectionScore(connected) + HighRiskScore(connections.high_risk_connections)
        queried == connected >= 2
        coordination == check_coordinated_timing(QueriedUsers(connected), hour_buckets)
        ring_score == IF queried /\ coordination.is_coordinated THEN base + 300 ELSE base
    IN  [op |-> "analyze",
         ring_score |-> Min(ring_score, 1000),
         coordination_queried |-> queried,
         queried_users |-> IF queried THEN QueriedUsers(connected) ELSE 0]

\* what the database holds when analyze is called: the HIGH-risk connections
\* are among the connected users, and a bucket counts users of the query
Connections ==
    { c \in [connected_user_count : 0..MaxConnected, high_risk_connections : 0..MaxHighRisk] :
        c.high_risk_connections <= c.connected_user_count }

HourBuckets(connected) ==
    { h \in [1..NBuckets -> 0..MaxBucketUsers] :
        \A b \in 1..NBuckets : h[b] <= 1 + Min(connected, 10) }

Analyze ==
    /\ call.op = "analyze"
    /\ ret = NoRet
    /\ ret' = analyze(call.connections, call.hour_buckets)
    /\ UNCHANGED <<table, call>>
    /\ UNCHANGED poolvars
    /\ UNCHANGED invvars
    /\ UNCHANGED compvars

InitL3 ==
    /\ PoolInit
    /\ CompInit
    /\ InvIdle
    /\ table = <<>>
    /\ \E c \in Connections : \E h \in HourBuckets(c.connected_user_count) :
          call = [op |-> "analyze", connections |-> c, hour_buckets |-> h]
    /\ ret = NoRet

NextL3 == Analyze

SpecL3 == InitL3 /\ [][NextL3]_vars

\* the three terms of the ring score as the specification states them
RingC(n) == IF n >= 5 THEN 500 ELSE IF n \in 3..4 THEN 300 ELSE IF n \in 1..2 THEN 100 ELSE 0
RingH(h) == IF h >= 2 THEN 400 ELSE IF h = 1 THEN 200 ELSE 0

\* some hour bucket holds at least 3 users of the query
TimingDetected == \E b \in 1..NBuckets : call.hour_buckets[b] >= 3

RingT == IF call.connections.connected_user_count >= 2 /\ TimingDetected THEN 300 ELSE 0

\* C25: analyze returns min(1.0, c + h + t) with c by the number of connected
\* users (0.5 / 0.3 / 0.1 / 0), h by the number of HIGH-risk connections
\* (0.4 / 0.2 / 0) and t = 0.3 iff coordinated timing is detected; the timing
\* query is made only with 2 or more connected users, on the caller plus at
\* most the first 10 of them; 6 connected users, 2 of them HIGH, with
\* coordinated timing give a ring score of at least 0.9.
C25_RingScore ==
    ret.op = "analyze" =>
        LET n == call.connections.connected_user_count
            h == call.connections.high_risk_connections
        IN  /\ ret.ring_score = Min(1000, RingC(n) + RingH(h) + RingT)
            /\ ret.coordination_queried <=> n >= 2
            /\ ret.coordination_queried =>
                  /\ ret.queried_users <= 11
                  /\ ret.queried_users = (IF n <= 10 THEN n + 1 ELSE 11)
            /\ (n = 6 /\ h = 2 /\ TimingDetected) => ret.ring_score >= 900

C25_Witness ==
    /\ ret.op = "analyze"
    /\ call.connections.connected_user_count = 6
    /\ call.connections.high_risk_connections = 2
    /\ TimingDetected
    /\ ret.coordination_queried
    /\ ret.queried_users = 7
    /\ ret.ring_score = 1000

(***************************************************************************)
(* SpecL5Full: reason called on a cache that 9 999 earlier calls, each     *)
(* with a context of its own, have filled; the calls that follow bring     *)
(* contexts the cache has not seen.                                        *)
(***************************************************************************)
\* the hashes of contexts not seen before
NewContexts == {10000 - 1 + c : c \in Contexts}

InitL5Full ==
    /\ PoolInit
    /\ InvIdle
    /\ FnIdle
    /\ sequence_cache = [u \in Users |-> <<>>]
    /\ l4_calls = [u \in Users |-> 0]
    /\ case_history = <<>>
    /\ processing_times = <<>>
    /\ cases_recorded = 0
    /\ times_recorded = 0
    /\ discovered_patterns = <<>>
    /\ discovery = "none"
    /\ update_buffer = <<>>
    /\ feedback = NoFeedback
    /\ cache = [h \in 1..(10000 - 1) |-> reason([raises |-> TRUE, output |-> <<>>])]
    /\ llm_returned = {}
    /\ llm_requests = 10000 - 1

NextL5Full == \E w \in Workers : \E context_hash \in NewContexts : Reason(w, context_hash)

SpecL5Full == InitL5Full /\ [][NextL5Full]_vars

\* C26: after any sequence of reason calls the L5 cache holds no more
\* entries than its capacity of 10 000 (the least recently used entry is
\* evicted when the cache is full).
C26_CacheBounded == Cardinality(DOMAIN cache) <= 10000

\* the entries worker w has taken from the stream and is not through with:
\* valid, no verdict POST issued for them by w, no error logged for them
InFlight(w) ==
    { i \in Ids : /\ <<w, i>> \in reads
                  /\ WellFormed(stream[i].data)
                  /\ ~\E p \in posts : p.w = w /\ p.id = i
                  /\ ~Logged(w, i) }

InFlightAll == { <<w, i>> \in Workers \X Ids : i \in InFlight(w) }

\* C28: at every moment the investigations in flight are at most as many as
\* the workers: each worker has at most one entry in progress, and it has
\* none when it is at the loop head or waiting in its next XREAD.
C28_InFlightBounded ==
    /\ Cardinality(InFlightAll) <= NWorkers
    /\ \A w \in Workers :
          /\ Cardinality(InFlight(w)) <= 1
          /\ pc[w] \in {"loop", "xread"} => InFlight(w) = {}
          /\ InFlight(w) # {} => (pc[w] \in Handling /\ InFlight(w) = {last_id[w]})

\* every worker is about to POST the verdict of its entry, one of them after
\* having handled an earlier entry
C28_Witness ==
    /\ \A w \in Workers : pc[w] = "post" /\ Cardinality(InFlight(w)) = 1
    /\ Cardinality(InFlightAll) = NWorkers
    /\ posts # {}

(***************************************************************************)
(* SpecShutdown: the pool from startup to the end of the process.  main()  *)
(* calls load_state before it starts the workers and save_state in its     *)
(* finally block; it installs no signal handler and the workers have no    *)
(* stop flag.  SIGINT reaches main as a cancellation of                    *)
(* await asyncio.gather(...), which cancels every worker task at the await *)
(* it is suspended in (CancelledError is not an Exception, so the workers' *)
(* except Exception does not catch it) and then runs the finally block.    *)
(* SIGTERM has its default disposition: the process ends at once.          *)
(***************************************************************************)
\* a file that does not unpickle
CorruptFile == [kind |-> "corrupt", keys |-> {}, last_updated |-> "never"]

\* the pickled state dictionary
Snapshot(last_updated) ==
    [kind |-> "snapshot",
     keys |-> {"learned_patterns", "model_weights", "performance_stats", "last_updated"},
     last_updated |-> last_updated]

\* what load_state can find at startup
StateFiles == {NoFile, CorruptFile, Snapshot("earlier_run")}

\* load_state: the three attributes are set only when the file exists and
\* unpickles; otherwise they are never created (__init__ does not set them)
load_state(file) == file.kind = "snapshot"

\* save_state: reading a missing attribute raises AttributeError inside the
\* try, before the file is opened; the except logs and returns
save_state(file, has_attrs) == IF has_attrs THEN Snapshot("this_run") ELSE file

Signals == {"SIGINT", "SIGTERM"}

Terminate(signal) ==
    /\ phase = "running"
    /\ blocked = 0
    /\ pc' = [w \in Workers |-> "cancelled"]
    /\ cursor' = [w \in Workers |-> 0]
    /\ IF signal = "SIGINT"
       THEN /\ phase' = "closed"
            /\ state_file' = save_state(state_file, attrs)
            /\ log' = IF attrs THEN log ELSE log \cup {<<0, 0, "save_failed">>}
            /\ services' = close_db_service(services, db_service)
            /\ db_service' = 0
       ELSE /\ phase' = "killed"
            /\ UNCHANGED <<state_file, log, db_service, services>>
    /\ UNCHANGED <<getpc, db_returns, conns, qpc, acquire_waits>>
    /\ UNCHANGED <<stream, last_id, reads, investigated, posts, faults, held, blocked, attrs>>
    /\ UNCHANGED <<invvars, fnvars>>
    /\ UNCHANGED compvars

InitShutdown ==
    /\ WorkersInit
    /\ CompInit
    /\ InvIdle
    /\ FnIdle
    /\ \E file \in StateFiles :
          /\ state_file = file
          /\ attrs = load_state(file)

NextShutdown ==
    \/ Next
    \/ \E signal \in Signals : Terminate(signal)

SpecShutdown == InitShutdown /\ [][NextShutdown]_vars

\* C22: once the shutdown block of main has run, the state file holds the
\* snapshot save_state wrote in this run, also when no state file existed
\* at startup (so that a later startup can load it).
C22_StateSavedOnShutdown ==
    phase = "closed" =>
        /\ state_file = Snapshot("this_run")
        /\ load_state(state_file)

\* C23: when the process has ended on a termination signal, no entry a
\* worker had taken is left in flight: each has had its verdict POST
\* attempted (or its error logged) before the handles were closed.
C23_InFlightDrained ==
    phase # "running" => \A w \in Workers : InFlight(w) = {}

(***************************************************************************)
(* SpecLoop: the pool on borderline cases, which go through all five       *)
(* layers.  openai_client is the synchronous OpenAI client and             *)
(* _llm_inference calls chat.completions.create without await: from the    *)
(* call to its return the thread of the event loop is inside the call, and *)
(* the loop resumes no task.  The context of a case is written as the id   *)
(* of its entry.                                                           *)
(***************************************************************************)
\* what the endpoint answers in this specification
LoopReplies ==
    { [raises |-> TRUE, output |-> <<>>],
      [raises |-> FALSE, output |-> <<LB, Rec("HUMAN_REVIEW"), Reasoning, Conf(550), RB>>] }

\* a case whose fused score is 0.50: 0.4 * 0.5 + 0.3 * 0.6 + 0.3 * 0.4
BorderlineCase(reply) ==
    [dbfail |-> "none", ml |-> 500, ring |-> 600, anomaly |-> 400, llm |-> reply]

\* the result of investigate for the borderline case, given what reason returned
BorderlineResult(llm_result) ==
    LET c == BorderlineCase([raises |-> TRUE, output |-> <<>>])
        combined == combined_score(c.ml, c.ring, c.anomaly)
    IN  _build_result(Get(llm_result, "recommendation", "HUMAN_REVIEW"),
                      Get(llm_result, "confidence", combined),
                      [layer2_ml_score |-> c.ml,
                       layer3_ring_score |-> c.ring,
                       layer4_anomaly_score |-> c.anomaly,
                       layer5_invoked |-> L5Gate(combined),
                       combined_score |-> combined,
                       final_score |-> Get(llm_result, "confidence", combined)],
                      {"L1", "L2", "L3", "L4", "L5"})

\* investigate up to the cache miss of reason: layers 1-4 have run and
\* openai_client.chat.completions.create is entered
LlmCall(w) ==
    /\ pc[w] = "investigate"
    /\ blocked = 0
    /\ last_id[w] \notin DOMAIN cache
    /\ investigated' = investigated \cup {<<w, last_id[w]>>}
    /\ l4_calls' = [l4_calls EXCEPT ![CaseUser] = @ + 1]
    /\ sequence_cache' = detect_anomalies(sequence_cache, CaseUser, l4_calls[CaseUser] + 1)
    /\ llm_requests' = llm_requests + ReasonRequests(cache, last_id[w])
    /\ pc' = [pc EXCEPT ![w] = "llm"]
    /\ blocked' = w
    /\ UNCHANGED <<stream, last_id, cursor, reads, posts, log, faults, held>>
    /\ UNCHANGED <<phase, state_file, attrs, dbvars>>
    /\ UNCHANGED <<cache, llm_returned>>
    /\ UNCHANGED <<ringvars, patvars>>
    /\ UNCHANGED <<invvars, fnvars>>

\* the endpoint answers (or the client raises): the rest of reason and of
\* investigate, up to its return
LlmReturn(w) ==
    /\ pc[w] = "llm"
    /\ blocked = w
    /\ \E reply \in LoopReplies :
          /\ cache' = ReasonCache(cache, last_id[w], reply)
          /\ llm_returned' = llm_returned \cup
                {[w |-> w, context |-> last_id[w],
                  verdict |-> ReasonReturn(cache, last_id[w], reply)]}
          /\ held' = [held EXCEPT ![w] =
                         BorderlineResult(ReasonReturn(cache, last_id[w], reply))]
    /\ cases_recorded' = cases_recorded + 1
    /\ case_history' = add_case(case_history, last_id[w])
    /\ times_recorded' = times_recorded + 1
    /\ processing_times' = AppendProcessingTime(processing_times, times_recorded + 1)
    /\ pc' = [pc EXCEPT ![w] = "extract"]
    /\ blocked' = 0
    /\ UNCHANGED <<stream, last_id, cursor, reads, investigated, posts, log, faults>>
    /\ UNCHANGED <<phase, state_file, attrs, dbvars>>
    /\ UNCHANGED llm_requests
    /\ UNCHANGED <<l4vars, patvars>>
    /\ UNCHANGED <<invvars, fnvars>>

\* investigate with a cache hit in reason: no call of the endpoint
InvestigateCached(w) ==
    /\ pc[w] = "investigate"
    /\ blocked = 0
    /\ last_id[w] \in DOMAIN cache
    /\ investigated' = investigated \cup {<<w, last_id[w]>>}
    /\ l4_calls' = [l4_calls EXCEPT ![CaseUser] = @ + 1]
    /\ sequence_cache' = detect_anomalies(sequence_cache, CaseUser, l4_calls[CaseUser] + 1)
    /\ llm_returned' = llm_returned \cup
          {[w |-> w, context |-> last_id[w], verdict |-> cache[last_id[w]]]}
    /\ held' = [held EXCEPT ![w] = BorderlineResult(cache[last_id[w]])]
    /\ cases_recorded' = cases_recorded + 1
    /\ case_history' = add_case(case_history, last_id[w])
    /\ times_recorded' = times_recorded + 1
    /\ processing_times' = AppendProcessingTime(processing_times, times_recorded + 1)
    /\ pc' = [pc EXCEPT ![w] = "extract"]
    /\ UNCHANGED <<stream, last_id, cursor, reads, posts, log, faults>>
    /\ UNCHANGED sysvars
    /\ UNCHANGED <<cache, llm_requests, patvars>>
    /\ UNCHANGED <<invvars, fnvars>>

\* the event loop resumes worker w
LoopStep(w) ==
    \/ XreadIssue(w)
    \/ XreadTimeout(w)
    \/ XreadError(w)
    \/ XreadDeliver(w)
    \/ LlmCall(w)
    \/ InvestigateCached(w)
    \/ Extract(w)
    \/ Post(w)
    \/ Wake(w)

NextLoop ==
    \/ \E data \in EntryShapes : Xadd(data)
    \/ \E w \in Workers : LoopStep(w)
    \/ \E w \in Workers : LlmReturn(w)

SpecLoop == Init /\ [][NextLoop]_vars

\* C27: while the investigation of one worker waits for the LLM endpoint to
\* answer, every other worker can take its next step (read the stream, run
\* a query, post a verdict) before the answer arrives.
C27_LlmCallSuspends ==
    \A w \in Workers : \A v \in Workers :
        (pc[w] = "llm" /\ v # w) => ENABLED LoopStep(v)

(***************************************************************************)
(* The processing-time ring and the performance report.                    *)
(***************************************************************************)
\* get_performance_stats: total_cases_processed is len(times), 0 when empty
get_performance_stats(times) ==
    [total_cases_processed |-> IF times = <<>> THEN 0 ELSE Len(times)]

\* C31: every investigation that completes, at a short-circuit gate or on
\* the gray path, appends one sample to the processing-time ring: after k
\* completed investigations the ring holds min(k, 1000) samples and
\* total_cases_processed of the performance report is that number.
C31_OneSamplePerInvestigation ==
    HasResult =>
        /\ Len(processing_times) = Min(cases_recorded, 1000)
        /\ get_performance_stats(processing_times).total_cases_processed
              = Min(cases_recorded, 1000)

(***************************************************************************)
(* Further properties of the worker pool, under Spec: the order of record  *)
(* and publish, and the last-seen id.                                      *)
(***************************************************************************)

\* C32: a case is in the processed-case ring only after its verdict has been
\* POSTed to the sink; no case is in the ring without a POST attempt.
C32_RecordedAfterPublished ==
    \A k \in 1..Len(case_history) :
        \E p \in posts : p.id = case_history[k]

(***************************************************************************)
(* SpecPatterns: PatternDiscoveryEngine under any sequence of recorded     *)
(* cases.  A case is written as its final decision and whether its         *)
(* amount_income_ratio is above 10; time is written as the number of cases *)
(* recorded so far.  Whether PATTERN_DISCOVERY_INTERVAL has passed since   *)
(* last_discovery is free at every call.                                   *)
(***************************************************************************)
MaxCases == 7

MIN_PATTERN_OCCURRENCES == 5

\* (the log line formatted without an error)
PatternLogFormats == FALSE

\* logger.info(f"... {pattern['pattern_type']}"): FraudPattern is a dataclass
\* and is not subscriptable, so formatting the line raises TypeError
PatternLogRaises == TRUE

\* fraud_cases = [c for c in self.case_history if c.final_decision == "AUTO_BLOCKED"]
FraudCases(history) ==
    SelectSeq(history, LAMBDA c : c.final_decision = "AUTO_BLOCKED")

_cluster_cases(cases, now) ==
    LET high_income_ratio == SelectSeq(cases, LAMBDA c : c.high_income_ratio)
    IN  IF Len(high_income_ratio) >= MIN_PATTERN_OCCURRENCES
        THEN << [pattern_id |-> 1,
                 pattern_type |-> "extreme_income_mismatch",
                 feature_signature |-> "amount_income_ratio > 10",
                 occurrences |-> Len(high_income_ratio),
                 discovered_at |-> now] >>
        ELSE <<>>

\* discover_patterns: the list afterwards and how the call ended.  The
\* membership test compares whole dataclass instances, all fields included.
discover_patterns(history, discovered, interval_passed, now) ==
    IF ~interval_passed
    THEN [discovered |-> discovered, outcome |-> "not_due"]
    ELSE IF Len(FraudCases(history)) < MIN_PATTERN_OCCURRENCES
    THEN [discovered |-> discovered, outcome |-> "too_few"]
    ELSE LET patterns == _cluster_cases(FraudCases(history), now)
         IN  IF patterns = <<>>
             THEN [discovered |-> discovered, outcome |-> "no_pattern"]
             ELSE IF \E k \in 1..Len(discovered) : discovered[k] = patterns[1]
             THEN [discovered |-> discovered, outcome |-> "known"]
             ELSE IF PatternLogRaises
             THEN [discovered |-> discovered, outcome |-> "raised"]
             ELSE [discovered |-> Append(discovered, patterns[1]), outcome |-> "appended"]

PatternCases == [final_decision : {"AUTO_BLOCKED", "AUTO_APPROVED"}, high_income_ratio : BOOLEAN]

\* _record_case: add_case, then discover_patterns
RecordCase(case) ==
    /\ cases_recorded < MaxCases
    /\ cases_recorded' = cases_recorded + 1
    /\ case_history' = add_case(case_history, case)
    /\ \E interval_passed \in BOOLEAN :
          LET d == discover_patterns(case_history', discovered_patterns,
                                     interval_passed, cases_recorded')
          IN  /\ discovered_patterns' = d.discovered
              /\ discovery' = d.outcome
    /\ UNCHANGED <<processing_times, times_recorded>>
    /\ UNCHANGED <<update_buffer, feedback>>
    /\ UNCHANGED <<l4vars, l5vars>>
    /\ UNCHANGED poolvars
    /\ UNCHANGED <<invvars, fnvars>>

InitPatterns ==
    /\ PoolInit
    /\ CompInit
    /\ InvIdle
    /\ FnIdle

NextPatterns == \E case \in PatternCases : RecordCase(case)

SpecPatterns == InitPatterns /\ [][NextPatterns]_vars

\* the AUTO_BLOCKED cases of the ring with amount_income_ratio > 10
Matching ==
    Cardinality({k \in 1..Len(case_history) :
                    /\ case_history[k].final_decision = "AUTO_BLOCKED"
                    /\ case_history[k].high_income_ratio})

MaxFeedback == 205

FEEDBACK_BATCH_SIZE == 100

\* (the batch branch taken only above the batch size)
BatchOverfull(buffer) == Len(buffer) > FEEDBACK_BATCH_SIZE

\* if len(self.update_buffer) >= FEEDBACK_BATCH_SIZE
BatchFull(buffer) == Len(buffer) >= FEEDBACK_BATCH_SIZE

LearnFromFeedback ==
    /\ feedback.accepted < MaxFeedback
    /\ LET case == feedback.accepted + 1
           appended == DequeAppend(update_buffer, case, FEEDBACK_BATCH_SIZE)
       IN  IF BatchFull(appended)
           THEN /\ update_buffer' = <<>>
                /\ feedback' = [accepted |-> case,
                                batches |-> feedback.batches + 1,
                                last_batch |-> appended]
           ELSE /\ update_buffer' = appended
                /\ feedback' = [feedback EXCEPT !.accepted = case]
    /\ UNCHANGED <<discovered_patterns, discovery>>
    /\ UNCHANGED <<l4vars, ringvars, l5vars>>
    /\ UNCHANGED poolvars
    /\ UNCHANGED <<invvars, fnvars>>

InitFeedback ==
    /\ PoolInit
    /\ CompInit
    /\ InvIdle
    /\ FnIdle

NextFeedback == LearnFromFeedback

SpecFeedback == InitFeedback /\ [][NextFeedback]_vars

\* the cases first + 1 .. first + n, in order
Run(first, n) == [i \in 1..n |-> first + i]

\* C34: after every return of learn_from_feedback the update buffer holds
\* fewer than 100 cases; the batch branch has run once for every 100
\* accepted cases, its batch was those 100 cases (none evicted before), and
\* the buffer holds exactly the cases accepted since.
C34_FeedbackBatches ==
    /\ Len(update_buffer) < 100
    /\ feedback.batches = feedback.accepted \div 100
    /\ feedback.batches > 0 =>
          feedback.last_batch = Run(100 * (feedback.batches - 1), 100)
    /\ update_buffer = Run(100 * feedback.batches, feedback.accepted % 100)

\* the second batch has run and a new case is in the buffer
C34_Witness ==
    /\ feedback.accepted = 201
    /\ feedback.batches = 2
    /\ feedback.last_batch[1] = 101
    /\ update_buffer = <<201>>

(***************************************************************************)
(* Further properties of LAYER 2, under SpecL2.                            *)
(***************************************************************************)
\* feature_importance.get('top_risk_factors', [])
TopRiskFactors == Get(ret.importance, "top_risk_factors", {})

\* C35: for every feature map, the top risk factors L2 returns contain
\* high_income_ratio iff amount_income_ratio > 5, sanctioned_country iff
\* ip_is_sanctioned = 1, anonymous_connection iff ip_anonymity_score > 0.5,
\* new_account iff is_new_account = 1 and shared_resources iff
\* network_risk_score > 0.6, whatever the L2 score.
C35_TopRiskFactors ==
    ret.op = "predict" =>
        LET f == ret.features IN
        /\ "high_income_ratio" \in TopRiskFactors <=> f.amount_income_ratio > 5000
        /\ "sanctioned_country" \in TopRiskFactors <=> f.ip_is_sanctioned = 1
        /\ "anonymous_connection" \in TopRiskFactors <=> f.ip_anonymity_score > 500
        /\ "new_account" \in TopRiskFactors <=> f.is_new_account = 1
        /\ "shared_resources" \in TopRiskFactors <=> f.network_risk_score > 600

\* C37: for every feature map predict returns at most 0.176, so investigate
\* always takes the ml_score < 0.20 gate: every verdict is AUTO_APPROVED and
\* L3, L4, L5 and the AUTO_BLOCKED decision are never reached.
C37_PredictAtMost176 ==
    /\ ret.op = "predict" => ret.probability <= 176
    /\ HasRun =>
          /\ ~result.raised
          /\ result.decision = "AUTO_APPROVED"
          /\ result.calls \cap DeepLayers = {}
          /\ result.confidence = ret.probability
    /\ ipc = "posted" => payload.status = "AUTO_APPROVED"

\* the largest score: every group of rules at its strongest rule
C37_Witness ==
    /\ ret.op = "predict"
    /\ ret.probability = 176
    /\ ipc = "posted"
    /\ result.decision = "AUTO_APPROVED"
    /\ result.confidence = 176

\* worker w takes an entry in this step: it starts to handle it, or logs it
\* as malformed or undecodable
TakesEntry(w) ==
    /\ pc[w] = "xread"
    /\ \/ pc'[w] = "investigate"
       \/ \E t \in {"malformed", "json_error"} :
             <<w, last_id'[w], t>> \in log' /\ <<w, last_id'[w], t>> \notin log

\* C36: within a worker the last-seen stream id only moves forward; it is
\* set to the id of an entry as soon as the entry is read, before the entry
\* is validated or handled, and the worker never takes an entry whose id is
\* not greater than the ids it has seen.
C36_LastIdForward ==
    [][\A w \in Workers :
          /\ last_id'[w] >= last_id[w]
          /\ \A i \in 1..Len(stream') :
                (<<w, i>> \in reads' /\ <<w, i>> \notin reads) => last_id'[w] = i
          /\ TakesEntry(w) =>
                /\ last_id'[w] > last_id[w]
                /\ <<w, last_id'[w]>> \notin reads
                /\ \A i \in 1..Len(stream) : <<w, i>> \in reads => i < last_id'[w]]_vars

\* a worker has read a malformed entry and then the next one
C36_Witness ==
    \E w \in Workers :
        /\ <<w, 1>> \in reads
        /\ <<w, 1, "malformed">> \in log
        /\ <<w, 2>> \in reads
        /\ last_id[w] = 2
        /\ pc[w] = "investigate"

(***************************************************************************)
(* SpecVerdict: worker lines 1287-1293 for one case with the feature       *)
(* values kept: investigate extracts and decides on the datastore as it is *)
(* at line 936, the worker extracts again at line 1290 on the datastore as *)
(* it is then, and update_java_api reports the second extraction.          *)
(***************************************************************************)
VerdictTransactions ==
    { tx \in Transactions :
         /\ tx.income = 1000
         /\ ~tx.isHighRiskCountry
         /\ tx.documentScore = 950
         /\ tx.riskLevel = "LOW"
         /\ tx.employmentStatus = "EMPLOYED" }

\* ai_signals["feature_extraction"]["key_features"] (account_age_days is
\* read from the transaction alone and left out)
key_features(features) ==
    [amount_income_ratio |-> features.amount_income_ratio,
     network_risk_score |-> features.network_risk_score,
     ip_anonymity_score |-> features.ip_anonymity_score,
     doc_risk |-> features.doc_risk]

\* the payload update_java_api builds from result and features
BuildPayloadFeatures(res, features) ==
    [verdict |-> BuildPayload(res), key_features |-> key_features(features)]

\* features = await fraud_system.layer1_features.extract(tx_data): the
\* datastore is read again, it may hold other rows by now or be unreachable
WorkerExtract ==
    /\ ipc = "returned"
    /\ ret.op = "predict"
    /\ \/ \E hist \in Histories :
             /\ ret' = [op |-> "worker_extract", features |-> extract(call.tx, hist)]
             /\ ipc' = "extracted"
       \/ /\ ipc' = "extract_raised"
          /\ UNCHANGED ret
    /\ UNCHANGED <<table, call, icase, result, payload>>
    /\ UNCHANGED poolvars
    /\ UNCHANGED compvars

\* await update_java_api(session, case_id, result, tx_data, features)
WorkerUpdateJavaApi ==
    /\ ipc = "extracted"
    /\ ret.op = "worker_extract"
    /\ payload' = BuildPayloadFeatures(result, ret.features)
    /\ ipc' = "posted"
    /\ UNCHANGED <<icase, result>>
    /\ UNCHANGED fnvars
    /\ UNCHANGED poolvars
    /\ UNCHANGED compvars

InitVerdict ==
    /\ PoolInit
    /\ CompInit
    /\ InvIdle
    /\ table = <<>>
    /\ call \in [op : {"investigate"}, tx : VerdictTransactions, hist : Histories]
    /\ ret = NoRet

NextVerdict ==
    \/ L2Extract
    \/ L2Predict
    \/ InvInvestigate
    \/ WorkerExtract
    \/ WorkerUpdateJavaApi

SpecVerdict == InitVerdict /\ [][NextVerdict]_vars

\* the feature values the case's decision was computed on (line 936)
DecisionFeatures == extract(call.tx, call.hist)

\* the payload of a posted verdict reports the decision's feature values
PayloadReportsDecisionFeatures ==
    ipc = "posted" => payload.key_features = key_features(DecisionFeatures)

\* investigate recorded the case and the worker left it without a POST
RecordedNeverPosted == ipc = "extract_raised" /\ cases_recorded > 0

\* C38: the feature values reported in a case's verdict payload are the
\* feature values its decision was computed on, and a case that investigate
\* decided and recorded always has its verdict POST attempted
C38_PayloadFeaturesOfDecision ==
    /\ PayloadReportsDecisionFeatures
    /\ ~RecordedNeverPosted

(***************************************************************************)
(* SpecSingleton: fraud_db_service.get_db_service and close_db_service     *)
(* called by NCallers coroutines of one event loop, from module import on. *)
(* A step is the code between two awaits.                                  *)
(***************************************************************************)
\* what get_db_service hands to caller c: the global as it is at the return
Returned(c, svcs, d) ==
    [caller |-> c, kind |-> "returned", svc |-> d,
     pool |-> IF d = 0 THEN "none" ELSE svcs[d].pool]

\* get_db_service up to its first await (lines 480-484), or to its return
\* when db_service is not None (lines 482, 486)
GetDbService(c) ==
    /\ getpc[c] = NotCalling
    /\ Len(db_returns) < MaxDbCalls
    /\ IF db_service = 0
       THEN /\ services' = Append(services, NewService)
            /\ db_service' = Len(services) + 1
            /\ getpc' = [getpc EXCEPT ![c] = [at |-> "connect", svc |-> Len(services) + 1]]
            /\ UNCHANGED db_returns
       ELSE /\ db_returns' = Append(db_returns, Returned(c, services, db_service))
            /\ UNCHANGED <<db_service, services, getpc>>
    /\ UNCHANGED <<conns, qpc, acquire_waits>>
    /\ UNCHANGED nondbvars
    /\ UNCHANGED <<invvars, fnvars>>
    /\ UNCHANGED compvars

\* asyncpg.create_pool returned: self.pool is set, get_db_service returns
\* the global
ConnectOk(c) ==
    /\ getpc[c].at = "connect"
    /\ services' = [services EXCEPT ![getpc[c].svc].pool = "connected"]
    /\ db_returns' = Append(db_returns, Returned(c, services', db_service))
    /\ getpc' = [getpc EXCEPT ![c] = NotCalling]
    /\ UNCHANGED <<db_service, conns, qpc, acquire_waits>>
    /\ UNCHANGED nondbvars
    /\ UNCHANGED <<invvars, fnvars>>
    /\ UNCHANGED compvars

\* asyncpg.create_pool raised: connect logs and re-raises, get_db_service
\* raises; the global keeps the service
ConnectRaise(c) ==
    /\ getpc[c].at = "connect"
    /\ db_returns' = Append(db_returns,
          [caller |-> c, kind |-> "raised", svc |-> getpc[c].svc, pool |-> "none"])
    /\ getpc' = [getpc EXCEPT ![c] = NotCalling]
    /\ UNCHANGED <<db_service, services, conns, qpc, acquire_waits>>
    /\ UNCHANGED nondbvars
    /\ UNCHANGED <<invvars, fnvars>>
    /\ UNCHANGED compvars

\* close_db_service up to await self.pool.close() (lines 490-493, 55-56),
\* or to its end when the service has no pool
CloseDbService(c) ==
    /\ getpc[c] = NotCalling
    /\ db_service # 0
    /\ IF services[db_service].pool = "none"
       THEN /\ services' = close_db_service(services, db_service)
            /\ db_service' = 0
            /\ UNCHANGED getpc
       ELSE /\ services' = [services EXCEPT ![db_service].pool = "closed"]
            /\ getpc' = [getpc EXCEPT ![c] = [at |-> "close", svc |-> db_service]]
            /\ UNCHANGED db_service
    /\ UNCHANGED <<db_returns, conns, qpc, acquire_waits>>
    /\ UNCHANGED nondbvars
    /\ UNCHANGED <<invvars, fnvars>>
    /\ UNCHANGED compvars

\* await db_service.close() returned: db_service = None (line 494)
CloseDone(c) ==
    /\ getpc[c].at = "close"
    /\ services' = IF db_service = 0 THEN services
                   ELSE [services EXCEPT ![db_service].dropped = TRUE]
    /\ db_service' = 0
    /\ getpc' = [getpc EXCEPT ![c] = NotCalling]
    /\ UNCHANGED <<db_returns, conns, qpc, acquire_waits>>
    /\ UNCHANGED nondbvars
    /\ UNCHANGED <<invvars, fnvars>>
    /\ UNCHANGED compvars

SingletonStep ==
    \E c \in Callers :
       \/ GetDbService(c)
       \/ ConnectOk(c)
       \/ ConnectRaise(c)
       \/ CloseDbService(c)
       \/ CloseDone(c)

\* the module has been imported: db_service = None
InitSingleton ==
    /\ WorkerTasks
    /\ FreshStart
    /\ CompInit
    /\ InvIdle
    /\ FnIdle
    /\ db_service = 0
    /\ services = <<>>
    /\ getpc = [c \in Callers |-> NotCalling]
    /\ db_returns = <<>>
    /\ conns = [w \in Workers |-> 0]
    /\ qpc = [w \in Workers |-> NoQuery]
    /\ acquire_waits = FALSE

NextSingleton == SingletonStep

SpecSingleton == InitSingleton /\ [][NextSingleton]_vars

\* close_db_service has not been called so far
NeverClosed ==
    \A i \in DOMAIN services : ~services[i].dropped /\ services[i].pool # "closed"

\* every service get_db_service has returned had a connected pool
ReturnedConnected ==
    \A i \in DOMAIN db_returns :
       db_returns[i].kind = "returned" => db_returns[i].pool = "connected"

\* a call returned a service while the call that created it awaits connect
ReturnedWhileConnecting ==
    /\ \E c \in Callers : getpc[c].at = "connect"
    /\ ~ReturnedConnected

\* a call returned an unconnected service after an earlier connect raised
ReturnedAfterRaise ==
    /\ \A c \in Callers : getpc[c] = NotCalling
    /\ \E i, j \in DOMAIN db_returns :
          /\ i < j
          /\ db_returns[i].kind = "raised"
          /\ db_returns[j].kind = "returned"
          /\ db_returns[j].pool = "none"

\* C39: until close_db_service is called, every service get_db_service
\* returns has a connected pool, also for overlapping callers and after a
\* connect that raised, and at most one service is ever created
C39_ServiceConnected ==
    NeverClosed => /\ ReturnedConnected
                   /\ Len(services) <= 1

(***************************************************************************)
(* SpecConns: the pool connections of the workers. Every datastore method  *)
(* is one "async with self.pool.acquire() as conn" block around its        *)
(* queries; a worker runs the methods of a case one after the other.       *)
(***************************************************************************)
\* the datastore calls of one case, in the order the worker makes them:
\* extract (lines 156-232), analyze (598, 622), the worker's extract (1290)
CaseQueries ==
    << "get_velocity_metrics", "get_device_history", "get_ip_history",
       "detect_rapid_escalation", "detect_structuring", "get_user_fraud_history",
       "find_connected_users", "check_coordinated_timing",
       "get_velocity_metrics", "get_device_history", "get_ip_history",
       "detect_rapid_escalation", "detect_structuring", "get_user_fraud_history" >>

\* DB_CONFIG['max_size'] = 20 = MAX_CONCURRENT_TASKS: one per worker
max_size == NWorkers

\* the connections of the pool that are held
InUse == SumSeq(conns)

\* the calls that can follow call q of a case: investigate returns after
\* extract when the ML score is clear (lines 943-963), analyze skips
\* check_coordinated_timing below two connected users (line 621)
NextQueries(q) ==
    IF q = 6 THEN {7, 9}
    ELSE IF q = 7 THEN {8, 9}
    ELSE IF q < Len(CaseQueries) THEN {q + 1}
    ELSE {}

\* mutation of FlaggedQueryAcquires: the flagged query takes a connection
\* of its own inside the block
FlaggedQueryNested == TRUE

\* flagged_rows = await conn.fetch(flagged_query, user_ids) runs on the
\* connection the block holds (line 347)
FlaggedQueryAcquires == FALSE

\* async with self.pool.acquire() as conn: the connection is taken when
\* one is free, otherwise the worker stays in the pool's queue until one is
Acquire(w) ==
    /\ qpc[w].at \in {"idle", "waiting"}
    /\ \E q \in (IF qpc[w].at = "waiting" THEN {qpc[w].q} ELSE NextQueries(qpc[w].q)) :
          IF InUse < max_size
          THEN /\ conns' = [conns EXCEPT ![w] = @ + 1]
               /\ qpc' = [qpc EXCEPT ![w] = [q |-> q, at |-> "holding"]]
               /\ UNCHANGED acquire_waits
          ELSE /\ qpc' = [qpc EXCEPT ![w] = [q |-> q, at |-> "waiting"]]
               /\ acquire_waits' = TRUE
               /\ UNCHANGED conns
    /\ UNCHANGED <<db_service, services, getpc, db_returns>>
    /\ UNCHANGED nondbvars
    /\ UNCHANGED <<invvars, fnvars>>
    /\ UNCHANGED compvars

\* find_connected_users found connected users: the flagged query
\* (lines 338-347)
FlaggedQuery(w) ==
    /\ qpc[w].at = "holding"
    /\ CaseQueries[qpc[w].q] = "find_connected_users"
    /\ qpc' = [qpc EXCEPT ![w].at = "flagged"]
    /\ IF FlaggedQueryAcquires
       THEN /\ conns' = [conns EXCEPT ![w] = @ + 1]
            /\ acquire_waits' = (acquire_waits \/ InUse >= max_size)
       ELSE UNCHANGED <<conns, acquire_waits>>
    /\ UNCHANGED <<db_service, services, getpc, db_returns>>
    /\ UNCHANGED nondbvars
    /\ UNCHANGED <<invvars, fnvars>>
    /\ UNCHANGED compvars

\* the last query of the block returned: __aexit__ releases the connection;
\* after the last call of the case the worker is back at XREAD
QueryReturn(w) ==
    /\ qpc[w].at \in {"holding", "flagged"}
    /\ conns' = [conns EXCEPT ![w] = 0]
    /\ qpc' = [qpc EXCEPT ![w] = IF NextQueries(qpc[w].q) = {} THEN NoQuery
                                 ELSE [q |-> qpc[w].q, at |-> "idle"]]
    /\ UNCHANGED <<db_service, services, getpc, db_returns, acquire_waits>>
    /\ UNCHANGED nondbvars
    /\ UNCHANGED <<invvars, fnvars>>
    /\ UNCHANGED compvars

\* a query raised: __aexit__ releases the connection and the exception
\* reaches the except of worker (lines 1302-1304), which logs it and drops
\* the case
QueryRaise(w) ==
    /\ qpc[w].at \in {"holding", "flagged"}
    /\ conns' = [conns EXCEPT ![w] = 0]
    /\ qpc' = [qpc EXCEPT ![w] = NoQuery]
    /\ UNCHANGED <<db_service, services, getpc, db_returns, acquire_waits>>
    /\ log' = log \cup {<<w, 0, "worker_error">>}
    /\ UNCHANGED <<stream, pc, last_id, cursor, reads, investigated, posts, faults, held>>
    /\ UNCHANGED <<blocked, phase, state_file, attrs>>
    /\ UNCHANGED <<invvars, fnvars>>
    /\ UNCHANGED compvars

InitConns ==
    /\ PoolInit
    /\ CompInit
    /\ InvIdle
    /\ FnIdle

NextConns ==
    \E w \in Workers :
       \/ Acquire(w)
       \/ FlaggedQuery(w)
       \/ QueryReturn(w)
       \/ QueryRaise(w)

SpecConns == InitConns /\ [][NextConns]_vars

\* C40: each worker holds at most one pool connection at a time, so with
\* as many workers as the pool's maximum the connections in use never
\* exceed the maximum and no acquire has to wait for a free connection
C40_OneConnectionPerWorker ==
    /\ \A w \in Workers : conns[w] <= 1
    /\ InUse <= max_size
    /\ ~acquire_waits
    /\ \A w \in Workers : qpc[w].at # "waiting"

\* every worker holds a connection at once, one of them in the second
\* query of find_connected_users
C40_Witness ==
    /\ \A w \in Workers : conns[w] = 1
    /\ \E w \in Workers : qpc[w].at = "flagged"

====
